---- MODULE Spec2Model ----
(***************************************************************************)
(* Model of the Greek freelancer tax calculator (src/tax_calculator.py).   *)
(*                                                                         *)
(* Representation of numbers.  The program computes with Python floats     *)
(* (IEEE-754 doubles) and finalises every monetary field with round(x, 2). *)
(* Which way round(x, 2) goes next to a decimal tie depends on the binary  *)
(* value of x: round(0.065, 2) is 0.07 and round(0.045, 2) is 0.04.  The   *)
(* model therefore computes with the doubles themselves: a double is a     *)
(* sign, an odd mantissa below 2^53 and a binary exponent, and +, -, *, /  *)
(* and round(x, 2) round as the hardware and CPython do (to nearest, ties  *)
(* to even, on the exact binary value).                                    *)
(*                                                                         *)
(*   - an amount passed to an operation is given as a number n of mills    *)
(*     (1/1000 EUR) and stands for the double of the literal n/1000, so    *)
(*     that sub-cent amounts and decimal ties (x.xx5) exist;               *)
(*   - a field finalised by round(x, 2) is held as the number of           *)
(*     hundredths (cents, or hundredths of a percent) it shows;            *)
(*   - a field that is not rounded (a rate, a bracket bound) is a double.  *)
(***************************************************************************)
EXTENDS Integers, Sequences, FiniteSets, TLC

VARIABLES
    brackets,       \* module global INCOME_TAX_BRACKETS (a mutable list)
    frequencies,    \* module global VALID_FREQUENCIES (a mutable list)
    pc,             \* "ready": no call in progress; "returned": a call returned
    op,             \* the operation last called
    args,           \* its arguments
    ret,            \* its return value
    raised,         \* the exception it raised, or "none"
    earlier,        \* an earlier call the caller has kept: its operation,
                    \* arguments and outcome
    calls,          \* concurrent callers: for each thread its call, the
                    \* outcome and the structures the outcome is made of
    frames,         \* the local variables of each thread's call
    session         \* the interactive session: the prompt it waits at, the
                    \* local variables of run_calculator, what it calculated

vars == <<brackets, frequencies, pc, op, args, ret, raised, earlier,
          calls, frames, session>>

----------------------------------------------------------------------------
(* Natural numbers of any size, for the mantissa arithmetic: little-endian *)
(* sequences of limbs in base 2^LimbBits with no high zero limb; << >> is  *)
(* 0.  Every intermediate stays inside TLC's 32-bit integers.  Throughout, *)
(* a value that is used more than once is the parameter of a local         *)
(* operator, and an operator tests its heavy argument first, so that each  *)
(* value is computed once and before the computation that uses it.         *)

LimbBits == 15
Base == 32768

(* 2^k for 0 <= k <= LimbBits *)
Pow2(k) == 2^k

RECURSIVE Trim(_)
Trim(a) == IF a = << >> THEN a
           ELSE IF a[Len(a)] = 0 THEN Trim(SubSeq(a, 1, Len(a) - 1)) ELSE a

RECURSIVE FromInt(_)
FromInt(n) == IF n = 0 THEN << >> ELSE <<n % Base>> \o FromInt(n \div Base)

RECURSIVE ToInt(_)
ToInt(a) == IF a = << >> THEN 0 ELSE a[1] + Base * ToInt(Tail(a))

Limb(a, i) == IF i <= Len(a) THEN a[i] ELSE 0

Zeros(n) == [i \in 1..n |-> 0]

(* -1, 0, 1 as a < b, a = b, a > b *)
RECURSIVE CmpFrom(_, _, _)
CmpFrom(a, b, i) ==
    IF i = 0 THEN 0
    ELSE IF Limb(a, i) < Limb(b, i) THEN -1
    ELSE IF Limb(a, i) > Limb(b, i) THEN 1
    ELSE CmpFrom(a, b, i - 1)

Cmp(a, b) == CmpFrom(a, b, IF Len(a) > Len(b) THEN Len(a) ELSE Len(b))

RECURSIVE AddFrom(_, _, _, _)
AddFrom(a, b, i, carry) ==
    IF i > Len(a) /\ i > Len(b)
    THEN IF carry = 0 THEN << >> ELSE <<carry>>
    ELSE LET t == Limb(a, i) + Limb(b, i) + carry
         IN  <<t % Base>> \o AddFrom(a, b, i + 1, t \div Base)

Add(a, b) == AddFrom(a, b, 1, 0)

(* a - b for a >= b *)
RECURSIVE SubFrom(_, _, _, _)
SubFrom(a, b, i, borrow) ==
    IF i > Len(a) THEN << >>
    ELSE LET t == Limb(a, i) - Limb(b, i) - borrow
         IN  <<t % Base>> \o SubFrom(a, b, i + 1, IF t < 0 THEN 1 ELSE 0)

Sub(a, b) == Trim(SubFrom(a, b, 1, 0))

(* a * k for 0 <= k <= Base *)
RECURSIVE MulSmallFrom(_, _, _, _)
MulSmallFrom(a, k, i, carry) ==
    IF i > Len(a) THEN (IF carry = 0 THEN << >> ELSE <<carry>>)
    ELSE LET t == a[i] * k + carry
         IN  <<t % Base>> \o MulSmallFrom(a, k, i + 1, t \div Base)

MulSmall(a, k) == IF k = 0 THEN << >> ELSE MulSmallFrom(a, k, 1, 0)

RECURSIVE MulFrom(_, _, _)
MulFrom(a, b, j) ==
    IF j > Len(b) THEN << >>
    ELSE Add(IF b[j] = 0 THEN << >> ELSE Zeros(j - 1) \o MulSmall(a, b[j]),
             MulFrom(a, b, j + 1))

Mul(a, b) == IF a = << >> \/ b = << >> THEN << >> ELSE MulFrom(a, b, 1)

RECURSIVE BitsOfLimb(_)
BitsOfLimb(x) == IF x = 0 THEN 0 ELSE 1 + BitsOfLimb(x \div 2)

BitLen(a) ==
    IF a = << >> THEN 0 ELSE LimbBits * (Len(a) - 1) + BitsOfLimb(a[Len(a)])

(* the number of zero bits below the lowest one bit, of a limb x > 0 and of *)
(* a > 0 from limb i up                                                    *)
RECURSIVE ZerosOfLimb(_)
ZerosOfLimb(x) == IF x % 2 = 1 THEN 0 ELSE 1 + ZerosOfLimb(x \div 2)

RECURSIVE TrailingZeros(_, _)
TrailingZeros(a, i) ==
    IF a[i] = 0 THEN LimbBits + TrailingZeros(a, i + 1) ELSE ZerosOfLimb(a[i])

(* a * 2^k *)
ShiftLeft(a, k) ==
    IF a = << >> \/ k = 0 THEN a
    ELSE Zeros(k \div LimbBits) \o MulSmall(a, Pow2(k % LimbBits))

(* floor(a / 2^k) *)
ShiftRight(a, k) ==
    LET w == k \div LimbBits
        s == k % LimbBits
        p == Pow2(s)
        q == Pow2(LimbBits - s)
        n == Len(a) - w
    IN  IF k = 0 THEN a
        ELSE IF n <= 0 THEN << >>
        ELSE Trim([i \in 1..n |->
                     (a[i + w] \div p) + (Limb(a, i + w + 1) % p) * q])

(* a mod 2^k *)
LowBits(a, k) ==
    LET w == k \div LimbBits
        s == k % LimbBits
    IN  IF Len(a) <= w THEN a
        ELSE Trim(SubSeq(a, 1, w)
                    \o (IF s = 0 THEN << >> ELSE <<a[w + 1] % Pow2(s)>>))

(* q rounded to even: q + 1 when the part dropped below q is more than a   *)
(* half (c > 0), or is a half (c = 0) and q is odd.                        *)
RoundToEven(q, c) ==
    IF c > 0 \/ (c = 0 /\ Limb(q, 1) % 2 = 1) THEN Add(q, <<1>>) ELSE q

(* a / 2^k rounded to the nearest integer, ties to even; a * 2^-k, exact,  *)
(* for k <= 0.                                                             *)
ShiftRightRound(a, k) ==
    IF k <= 0 THEN ShiftLeft(a, -k)
    ELSE RoundToEven(ShiftRight(a, k),
                     Cmp(LowBits(a, k), ShiftLeft(<<1>>, k - 1)))

(* <<floor(h / k), h mod k>> for the limbs h of a from limb i up and       *)
(* 0 < k < Base: long division by one limb, the high limbs first.          *)
RECURSIVE DivSmallFrom(_, _, _)
DivSmallFrom(a, k, i) ==
    IF i > Len(a) THEN <<<< >>, 0>>
    ELSE LET high == DivSmallFrom(a, k, i + 1)
             t    == high[2] * Base + a[i]
         IN  <<<<t \div k>> \o high[1], t % k>>

(* Long division by a divisor b of two limbs or more whose high limb is at *)
(* least Base / 2.  QuotientLimb(r, b) is <<floor(r / b), r mod b>> for    *)
(* r < b * Base: a first guess from the high limbs, never too large, then  *)
(* corrected upwards.                                                      *)
RECURSIVE Correct(_, _, _)
Correct(q, r, b) ==
    IF Cmp(r, b) >= 0 THEN Correct(q + 1, Sub(r, b), b) ELSE <<q, r>>

QuotientLimb(r, b) ==
    LET n     == Len(b)
        guess == (Limb(r, n + 1) * Base + Limb(r, n)) \div (b[n] + 1)
    IN  IF Cmp(r, b) < 0 THEN <<0, r>>
        ELSE Correct(guess, Sub(r, MulSmall(b, guess)), b)

(* DivLongFrom(a, b, i) is <<floor(h / b), h mod b>> for the limbs h of a  *)
(* from limb i up: the limbs above Len(a) - Len(b) + 1 are less than b and *)
(* make the first remainder, each lower limb gives one limb of quotient.   *)
RECURSIVE DivLongFrom(_, _, _)
DivLongFrom(a, b, i) ==
    IF i > Len(a) - Len(b) + 1 THEN <<<< >>, Trim(SubSeq(a, i, Len(a)))>>
    ELSE LET Digit(high, step) == <<<<step[1]>> \o high[1], step[2]>>
             Divide(high) ==
                 IF high[2] = << >> /\ a[i] = 0
                 THEN <<<<0>> \o high[1], << >>>>
                 ELSE Digit(high,
                            QuotientLimb(Trim(<<a[i]>> \o high[2]), b))
         IN  Divide(DivLongFrom(a, b, i + 1))

(* <<floor(a / b), a mod b>> for b > 0; for a long divisor both are scaled *)
(* to bring its high limb up to Base / 2, so the remainder is scaled too   *)
(* (only whether it is zero is used).                                      *)
DivMod(a, b) ==
    LET Short(qr) == <<Trim(qr[1]), FromInt(qr[2])>>
        Long(qr)  == <<Trim(qr[1]), qr[2]>>
        Scaled(k) == Long(DivLongFrom(ShiftLeft(a, k), ShiftLeft(b, k), 1))
    IN  IF Len(b) = 1 THEN Short(DivSmallFrom(a, b[1], 1))
        ELSE Scaled(LimbBits - BitsOfLimb(b[Len(b)]))

----------------------------------------------------------------------------
(* Python floats.  [s, m, e] is the double (-1)^s * m * 2^e with m odd and *)
(* below 2^53; 0.0 is [0, << >>, 0] (the sign of a zero is not kept: no    *)
(* operation of the program tells -0.0 from 0.0).  No amount of the model  *)
(* is near the overflow or the subnormal range, so e is not limited; the   *)
(* one infinite value the program uses is Infinity.                        *)

MantissaBits == 53

Zero == [s |-> 0, m |-> << >>, e |-> 0]

(* float('inf'): 2^1024, the first magnitude past the doubles *)
Infinity == [s |-> 0, m |-> <<1>>, e |-> 1024]

(* (-1)^s * n * 2^e rounded to a double: the k bits of n beyond            *)
(* MantissaBits are rounded away, then the tz low zero bits stripped.      *)
Normal(s, n, e) ==
    LET Odd(r, x, tz) == [s |-> s, m |-> ShiftRight(r, tz), e |-> x + tz]
        Strip(r, x)   == Odd(r, x, TrailingZeros(r, 1))
        Round(k)      == Strip(ShiftRightRound(n, k), e + k)
        Excess(l)     == Round(IF l > MantissaBits THEN l - MantissaBits ELSE 0)
    IN  IF n = << >> THEN Zero ELSE Excess(BitLen(n))

(* float(n) of an int n *)
FInt(n) ==
    Normal(IF n >= 0 THEN 0 ELSE 1, FromInt(IF n >= 0 THEN n ELSE -n), 0)

FNeg(x) == IF x = Zero THEN x ELSE [x EXCEPT !.s = 1 - x.s]

(* x + y *)
FAdd(x, y) ==
    LET Sum(a, b, c, e) ==
            Normal(IF x.s = y.s \/ c >= 0 THEN x.s ELSE y.s,
                   IF x.s = y.s THEN Add(a, b)
                   ELSE IF c >= 0 THEN Sub(a, b) ELSE Sub(b, a),
                   e)
        Aligned(a, b, e) == Sum(a, b, Cmp(a, b), e)
        Align(e) ==
            Aligned(ShiftLeft(x.m, x.e - e), ShiftLeft(y.m, y.e - e), e)
    IN  IF x = Infinity \/ y = Infinity THEN Infinity
        ELSE IF x = Zero THEN y
        ELSE IF y = Zero THEN x
        ELSE Align(IF x.e < y.e THEN x.e ELSE y.e)

(* x - y *)
FSub(x, y) == FAdd(x, FNeg(y))

(* x * y *)
FMul(x, y) ==
    IF x = Zero \/ y = Zero THEN Zero
    ELSE Normal((x.s + y.s) % 2, Mul(x.m, y.m), x.e + y.e)

(* x / y for y # 0: the quotient to more than 54 bits, then a sticky bit   *)
(* for a non-zero remainder, rounded once.                                 *)
FDiv(x, y) ==
    LET Sticky(qr) ==
            IF qr[2] = << >> THEN ShiftLeft(qr[1], 1)
            ELSE Add(ShiftLeft(qr[1], 1), <<1>>)
        Quotient(k) ==
            Normal((x.s + y.s) % 2,
                   Sticky(DivMod(ShiftLeft(x.m, k), y.m)),
                   x.e - y.e - k - 1)
        Widened(k) == Quotient(IF k < 0 THEN 0 ELSE k)
    IN  IF x = Zero THEN x
        ELSE Widened(MantissaBits + 3 + BitLen(y.m) - BitLen(x.m))

(* -1, 0, 1 as x < y, x = y, x > y *)
FCmp(x, y) ==
    IF x = y THEN 0
    ELSE IF x = Infinity THEN 1
    ELSE IF y = Infinity THEN -1
    ELSE IF x = Zero THEN (IF y.s = 1 THEN 1 ELSE -1)
    ELSE IF y = Zero THEN (IF x.s = 1 THEN -1 ELSE 1)
    ELSE IF x.s # y.s THEN (IF x.s = 1 THEN -1 ELSE 1)
    ELSE LET Signed(c) == IF x.s = 0 THEN c ELSE -c
             Align(e)  ==
                 Signed(Cmp(ShiftLeft(x.m, x.e - e), ShiftLeft(y.m, y.e - e)))
         IN  Align(IF x.e < y.e THEN x.e ELSE y.e)

(* max(x, y) and min(x, y) of Python: the first argument unless the second *)
(* is strictly greater (smaller).                                          *)
max(x, y) == IF FCmp(y, x) > 0 THEN y ELSE x

(* Mutant: the first argument, whatever the second is. *)
min_first(x, y) == x

min(x, y) == IF FCmp(y, x) < 0 THEN y ELSE x

(* round(x, 2), in hundredths: the integer nearest to the exact value of   *)
(* x * 100, ties to even.  A decimal tie x.xx5 is almost never a double,   *)
(* so the double next to it decides.                                       *)
round2(x) ==
    LET Signed(k) == IF x.s = 1 THEN -k ELSE k
    IN  Signed(ToInt(ShiftRightRound(MulSmall(x.m, 100), -x.e)))

(* The double of the decimal literal n/d (d a power of ten): the double    *)
(* nearest to the quotient, which is what the correctly rounded division   *)
(* of the two integers gives.                                              *)
Dec(n, d) == FDiv(FInt(n), FInt(d))

CentsPerEuro == 100
MillsPerEuro == 1000

(* The float round(x, 2) returns when it shows `cents` hundredths. *)
Money(cents) == Dec(cents, CentsPerEuro)

(* The float of an input of `mills` thousandths. *)
Amount(mills) == Dec(mills, MillsPerEuro)

----------------------------------------------------------------------------
(* Tax constants *)

INCOME_TAX_BRACKETS ==
    << [limit |-> FInt(10000), rate |-> Dec(9, 100)],
       [limit |-> FInt(20000), rate |-> Dec(22, 100)],
       [limit |-> FInt(30000), rate |-> Dec(28, 100)],
       [limit |-> FInt(40000), rate |-> Dec(36, 100)],
       [limit |-> Infinity,    rate |-> Dec(44, 100)] >>

(* Mutant: the reduced rate of 13%. *)
VAT_RATE_reduced == Dec(13, 100)

VAT_RATE == Dec(24, 100)
EFKA_MAIN_RATE == Dec(1333, 10000)
EFKA_ADDITIONAL_RATE == Dec(667, 10000)
(* Mutant: the main insurance alone. *)
EFKA_TOTAL_RATE_main_only == EFKA_MAIN_RATE

EFKA_TOTAL_RATE == FAdd(EFKA_MAIN_RATE, EFKA_ADDITIONAL_RATE)

Hundred == FInt(100)

----------------------------------------------------------------------------
(* calculate_taxable_income(gross_income, deductible_expenses) *)

(* Mutant: the floor at zero forgotten. *)
calculate_taxable_income_unfloored(gross_income, deductible_expenses) ==
    round2(FSub(gross_income, deductible_expenses))

calculate_taxable_income(gross_income, deductible_expenses) ==
    LET taxable == max(Zero, FSub(gross_income, deductible_expenses))
    IN  round2(taxable)

----------------------------------------------------------------------------
(* calculate_income_tax(taxable_income) *)

Unlimited == [text |-> "unlimited"]

(* Mutant: the bracket width taken as the bracket's upper limit, the lower  *)
(* bound not subtracted.                                                   *)
bracket_size_full_width(bracket_limit, previous_bracket_limit) ==
    bracket_limit

(* Mutant: the open-ended top bracket given no width. *)
bracket_size_closed_top(bracket_limit, previous_bracket_limit) ==
    IF bracket_limit = Infinity THEN Zero
    ELSE FSub(bracket_limit, previous_bracket_limit)

(* bracket_size = bracket_limit - previous_bracket_limit *)
bracket_size(bracket_limit, previous_bracket_limit) ==
    FSub(bracket_limit, previous_bracket_limit)

(* Mutant: total_tax = tax_in_bracket, the earlier brackets' tax dropped. *)
add_to_total_tax_overwriting(total_tax, tax_in_bracket) == tax_in_bracket

(* total_tax += tax_in_bracket *)
add_to_total_tax(total_tax, tax_in_bracket) == FAdd(total_tax, tax_in_bracket)

(* Mutant: the rate taken from the total tax already rounded to cents. *)
effective_rate_of_rounded_tax(total_tax, taxable_income) ==
    IF FCmp(taxable_income, Zero) > 0
    THEN FMul(FDiv(Money(round2(total_tax)), taxable_income), Hundred)
    ELSE Zero

(* effective_rate = (total_tax / taxable_income * 100)                     *)
(*                  if taxable_income > 0 else 0.0                         *)
effective_rate(total_tax, taxable_income) ==
    IF FCmp(taxable_income, Zero) > 0
    THEN FMul(FDiv(total_tax, taxable_income), Hundred)
    ELSE Zero

(* One iteration of the for loop, on bracket i of the table: the values of *)
(* the loop's variables after it.                                          *)
LoopBody(i, total_tax, bracket_breakdown, remaining_income, previous_bracket_limit) ==
    LET bracket_limit == brackets[i].limit
        rate          == brackets[i].rate
        Iteration(taxable_in_bracket, tax_in_bracket) ==
            [ i                      |-> i + 1,
              total_tax              |-> add_to_total_tax(total_tax,
                                                          tax_in_bracket),
              bracket_breakdown      |->
                  Append(bracket_breakdown,
                      [ bracket_min    |-> previous_bracket_limit,
                        bracket_max    |-> IF bracket_limit # Infinity
                                           THEN bracket_limit
                                           ELSE Unlimited,
                        rate           |-> FMul(rate, Hundred),
                        taxable_amount |-> round2(taxable_in_bracket),
                        tax_amount     |-> round2(tax_in_bracket) ]),
              remaining_income       |-> FSub(remaining_income,
                                              taxable_in_bracket),
              previous_bracket_limit |-> bracket_limit ]
        InBracket(taxable_in_bracket) ==
            Iteration(taxable_in_bracket, FMul(taxable_in_bracket, rate))
    IN  InBracket(min(remaining_income,
                      bracket_size(bracket_limit, previous_bracket_limit)))

(* Mutant: the loop left only once the remaining income is negative. *)
LoopEnds_below_zero(i, remaining_income) ==
    i > Len(brackets) \/ FCmp(remaining_income, Zero) < 0

(* The loop is over: the table is exhausted, or `if remaining_income <= 0: *)
(* break`.                                                                 *)
LoopEnds(i, remaining_income) ==
    i > Len(brackets) \/ FCmp(remaining_income, Zero) <= 0

(* The for loop over the brackets, from bracket i on. *)
RECURSIVE BracketLoop(_, _, _, _, _)
BracketLoop(i, total_tax, bracket_breakdown, remaining_income, previous_bracket_limit) ==
    IF LoopEnds(i, remaining_income)
    THEN [total_tax |-> total_tax, bracket_breakdown |-> bracket_breakdown]
    ELSE LET Again(l) ==
                 BracketLoop(l.i, l.total_tax, l.bracket_breakdown,
                             l.remaining_income, l.previous_bracket_limit)
         IN  Again(LoopBody(i, total_tax, bracket_breakdown,
                            remaining_income, previous_bracket_limit))

(* The result dictionary, from the loop's total_tax and bracket_breakdown. *)
IncomeTaxResult(loop, taxable_income) ==
    [ total_tax         |-> round2(loop.total_tax),
      effective_rate    |-> round2(effective_rate(loop.total_tax,
                                                  taxable_income)),
      bracket_breakdown |-> loop.bracket_breakdown ]

(* `if taxable_income <= 0`: the result returned without entering the loop *)
NothingToTax == [total_tax |-> 0, effective_rate |-> 0, bracket_breakdown |-> << >>]

calculate_income_tax(taxable_income) ==
    IF FCmp(taxable_income, Zero) <= 0
    THEN NothingToTax
    ELSE IncomeTaxResult(BracketLoop(1, Zero, << >>, taxable_income, Zero),
                         taxable_income)

----------------------------------------------------------------------------
(* calculate_vat(gross_income) *)

calculate_vat(gross_income) ==
    LET total_with_vat(vat_amount) == FAdd(gross_income, vat_amount)
        Result(vat_amount) ==
            [ vat_amount     |-> round2(vat_amount),
              rate           |-> FMul(VAT_RATE, Hundred),
              total_with_vat |-> round2(total_with_vat(vat_amount)) ]
    IN  Result(FMul(gross_income, VAT_RATE))

----------------------------------------------------------------------------
(* calculate_social_security(gross_income) *)

(* Mutant: the total taken as the sum of the two rounded parts. *)
calculate_social_security_sum_of_parts(gross_income) ==
    LET main_insurance           == FMul(gross_income, EFKA_MAIN_RATE)
        additional_contributions == FMul(gross_income, EFKA_ADDITIONAL_RATE)
        total_contribution       ==
            FAdd(Money(round2(main_insurance)),
                 Money(round2(additional_contributions)))
    IN  [ total_contribution       |-> round2(total_contribution),
          main_insurance           |-> round2(main_insurance),
          additional_contributions |-> round2(additional_contributions),
          rate                     |-> FMul(EFKA_TOTAL_RATE, Hundred) ]

calculate_social_security(gross_income) ==
    LET main_insurance           == FMul(gross_income, EFKA_MAIN_RATE)
        additional_contributions == FMul(gross_income, EFKA_ADDITIONAL_RATE)
        total_contribution       == FMul(gross_income, EFKA_TOTAL_RATE)
    IN  [ total_contribution       |-> round2(total_contribution),
          main_insurance           |-> round2(main_insurance),
          additional_contributions |-> round2(additional_contributions),
          rate                     |-> FMul(EFKA_TOTAL_RATE, Hundred) ]

----------------------------------------------------------------------------
(* calculate_all_taxes(gross_income, deductible_expenses) *)

(* Mutant: VAT counted among the taxes the freelancer bears. *)
Totals_vat_in_taxes(gross_income, income_tax, vat, social_security) ==
    LET total_taxes == FAdd(FAdd(Money(income_tax.total_tax),
                                 Money(social_security.total_contribution)),
                            Money(vat.vat_amount))
    IN  [ total_taxes       |-> total_taxes,
          total_obligations |-> FAdd(total_taxes, Money(vat.vat_amount)),
          net_income        |-> FSub(gross_income, total_taxes) ]

(* Mutant: VAT subtracted from the net income. *)
Totals_net_of_vat(gross_income, income_tax, vat, social_security) ==
    LET total_taxes       == FAdd(Money(income_tax.total_tax),
                                  Money(social_security.total_contribution))
        total_obligations == FAdd(total_taxes, Money(vat.vat_amount))
    IN  [ total_taxes       |-> total_taxes,
          total_obligations |-> total_obligations,
          net_income        |-> FSub(gross_income, total_obligations) ]

(* "Calculate totals": floats, not yet rounded. *)
Totals(gross_income, income_tax, vat, social_security) ==
    LET Result(total_taxes) ==
            [ total_taxes       |-> total_taxes,
              total_obligations |-> FAdd(total_taxes, Money(vat.vat_amount)),
              net_income        |-> FSub(gross_income, total_taxes) ]
    IN  Result(FAdd(Money(income_tax.total_tax),
                    Money(social_security.total_contribution)))

(* Mutant: the contribution base taken after the deductions. *)
Components_on_taxable(gross_income, taxable_income) ==
    [ income_tax      |-> calculate_income_tax(taxable_income),
      vat             |-> calculate_vat(gross_income),
      social_security |-> calculate_social_security(taxable_income) ]

(* "Calculate individual tax components" *)
Components(gross_income, taxable_income) ==
    [ income_tax      |-> calculate_income_tax(taxable_income),
      vat             |-> calculate_vat(gross_income),
      social_security |-> calculate_social_security(gross_income) ]

(* "Calculate totals", the effective total rate and the summary returned, *)
(* from the taxable income and the three components c.                     *)
Summarize(gross_income, deductible_expenses, taxable_income, c) ==
    LET effective_total_rate(total_taxes) ==
            IF FCmp(gross_income, Zero) > 0
            THEN FMul(FDiv(total_taxes, gross_income), Hundred)
            ELSE Zero
        Summary(totals) ==
            [ gross_income         |-> round2(gross_income),
              deductible_expenses  |-> round2(deductible_expenses),
              taxable_income       |-> round2(taxable_income),
              income_tax           |-> c.income_tax,
              vat                  |-> c.vat,
              social_security      |-> c.social_security,
              total_taxes          |-> round2(totals.total_taxes),
              total_obligations    |-> round2(totals.total_obligations),
              net_income           |-> round2(totals.net_income),
              effective_total_rate |->
                  round2(effective_total_rate(totals.total_taxes)) ]
    IN  Summary(Totals(gross_income, c.income_tax, c.vat, c.social_security))

(* The path taken for gross_income > 0. *)
NormalPath(gross_income, deductible_expenses) ==
    LET Taxed(taxable_income) ==
            Summarize(gross_income, deductible_expenses, taxable_income,
                      Components(gross_income, taxable_income))
    IN  Taxed(Money(calculate_taxable_income(gross_income,
                                             deductible_expenses)))

(* Mutant: the expenses left out of the all-zero summary. *)
ZeroSummary_without_expenses(gross_income, deductible_expenses) ==
    [ gross_income         |-> round2(gross_income),
      deductible_expenses  |-> 0,
      taxable_income       |-> 0,
      income_tax           |-> calculate_income_tax(FInt(0)),
      vat                  |-> calculate_vat(FInt(0)),
      social_security      |-> calculate_social_security(FInt(0)),
      total_taxes          |-> 0,
      total_obligations    |-> 0,
      net_income           |-> 0,
      effective_total_rate |-> 0 ]

(* "Handle edge case: zero or negative income" *)
ZeroSummary(gross_income, deductible_expenses) ==
    [ gross_income         |-> round2(gross_income),
      deductible_expenses  |-> round2(deductible_expenses),
      taxable_income       |-> 0,
      income_tax           |-> calculate_income_tax(FInt(0)),
      vat                  |-> calculate_vat(FInt(0)),
      social_security      |-> calculate_social_security(FInt(0)),
      total_taxes          |-> 0,
      total_obligations    |-> 0,
      net_income           |-> 0,
      effective_total_rate |-> 0 ]

(* Mutant: the guard for a zero or negative gross income left out. *)
calculate_all_taxes_unguarded(gross_income, deductible_expenses) ==
    NormalPath(gross_income, deductible_expenses)

calculate_all_taxes(gross_income, deductible_expenses) ==
    IF FCmp(gross_income, Zero) <= 0
    THEN ZeroSummary(gross_income, deductible_expenses)
    ELSE NormalPath(gross_income, deductible_expenses)

----------------------------------------------------------------------------
(* Frequency tokens: a Python str is a sequence of characters. *)

UpperCase == <<"A", "B", "C", "D", "E", "F", "G", "H", "I", "J", "K", "L", "M",
               "N", "O", "P", "Q", "R", "S", "T", "U", "V", "W", "X", "Y", "Z">>
LowerCase == <<"a", "b", "c", "d", "e", "f", "g", "h", "i", "j", "k", "l", "m",
               "n", "o", "p", "q", "r", "s", "t", "u", "v", "w", "x", "y", "z">>

LowerChar(c) ==
    IF \E i \in DOMAIN UpperCase : UpperCase[i] = c
    THEN LowerCase[CHOOSE i \in DOMAIN UpperCase : UpperCase[i] = c]
    ELSE c

(* str.lower() *)
lower(s) == [i \in DOMAIN s |-> LowerChar(s[i])]

monthly == <<"m", "o", "n", "t", "h", "l", "y">>
quarterly == <<"q", "u", "a", "r", "t", "e", "r", "l", "y">>
annual == <<"a", "n", "n", "u", "a", "l">>

VALID_FREQUENCIES == <<monthly, quarterly, annual>>

(* ', '.join(VALID_FREQUENCIES) is only text of the error message. *)

----------------------------------------------------------------------------
(* calculate_payment_schedule(annual_tax, frequency)                       *)
(* The result is [raised, value]: the exception raised ("none" when the    *)
(* call returns) and the returned dictionary.                              *)

(* Mutant: the quarterly count taken as the number of months in a quarter. *)
payments_per_year_months_in_quarter ==
    << [key |-> monthly, value |-> 12],
       [key |-> quarterly, value |-> 3],
       [key |-> annual, value |-> 1] >>

(* The dictionary payments_per_year, as its items in order. *)
payments_per_year ==
    << [key |-> monthly, value |-> 12],
       [key |-> quarterly, value |-> 4],
       [key |-> annual, value |-> 1] >>

HasKey(dict, k) == \E i \in DOMAIN dict : dict[i].key = k
Lookup(dict, k) == dict[CHOOSE i \in DOMAIN dict : dict[i].key = k].value

NoValue == [none |-> TRUE]

(* Mutant: the token compared as given, not lower-cased. *)
IsValidFrequency_case_sensitive(frequency) ==
    \E i \in DOMAIN frequencies : frequencies[i] = frequency

(* frequency.lower() in VALID_FREQUENCIES *)
IsValidFrequency(frequency) ==
    \E i \in DOMAIN frequencies : frequencies[i] = lower(frequency)

(* Mutant: the annual amount always split into monthly payments. *)
PaymentAmount_always_monthly(annual_tax, num_payments) ==
    FDiv(annual_tax, FInt(12))

(* payment_amount = annual_tax / num_payments *)
PaymentAmount(annual_tax, num_payments) ==
    FDiv(annual_tax, FInt(num_payments))

calculate_payment_schedule(annual_tax, frequency) ==
    IF ~ IsValidFrequency(frequency)
    THEN [raised |-> "ValueError", value |-> NoValue]
    ELSE LET freq == lower(frequency)
         IN  IF ~ HasKey(payments_per_year, freq)
             THEN [raised |-> "KeyError", value |-> NoValue]
             ELSE
             LET num_payments == Lookup(payments_per_year, freq)
                 schedule(payment_amount) ==
                     [i \in 1..num_payments |->
                         [period_number  |-> i,
                          payment_amount |-> round2(payment_amount)]]
                 Result(payment_amount) ==
                     [ annual_total       |-> round2(annual_tax),
                       frequency          |-> freq,
                       number_of_payments |-> num_payments,
                       payment_amount     |-> round2(payment_amount),
                       schedule           |-> schedule(payment_amount) ]
             IN  [raised |-> "none",
                  value  |-> Result(PaymentAmount(annual_tax, num_payments))]

----------------------------------------------------------------------------
(* Inputs of the calls.  Amounts are in mills and lie around the amounts   *)
(* the source names (bracket limits, docstring examples): every mill up to *)
(* Spread mills to either side, and every half cent up to Spread half      *)
(* cents to either side, so that whole cents, sub-cent amounts, decimal    *)
(* ties (x.xx5) and non-positive amounts all occur.                        *)

Spread == 6
ExpenseSpread == 1

Offsets(spread) ==
    {k : k \in -spread..spread} \cup {5 * k : k \in -spread..spread}

Near(euros, spread) == {euros * MillsPerEuro + k : k \in Offsets(spread)}

GrossInputs ==
    UNION {Near(L, Spread) : L \in {0, 50, 15000, 35000, 60000}}

ExpenseInputs ==
    UNION {{L * MillsPerEuro + 5 * k : k \in -ExpenseSpread..ExpenseSpread} :
             L \in {0, 5000, 15000}}

TaxableInputs ==
    UNION {Near(L, Spread) :
             L \in {0, 3000, 10000, 15000, 20000, 30000, 40000, 50000}}

AnnualInputs ==
    UNION {Near(L, Spread) : L \in {0, 1000, 12000, 25900}}

Capitalized(w) ==
    [i \in DOMAIN w |->
        IF i = 1 /\ \E j \in DOMAIN LowerCase : LowerCase[j] = w[i]
        THEN UpperCase[CHOOSE j \in DOMAIN LowerCase : LowerCase[j] = w[i]]
        ELSE w[i]]

UpperCased(w) ==
    [i \in DOMAIN w |->
        IF \E j \in DOMAIN LowerCase : LowerCase[j] = w[i]
        THEN UpperCase[CHOOSE j \in DOMAIN LowerCase : LowerCase[j] = w[i]]
        ELSE w[i]]

Words ==
    { monthly, quarterly, annual,
      <<"b", "o", "g", "u", "s">>, <<"y", "e", "a", "r", "l", "y">>,
      <<"m", "o", "n", "t", "h">>, <<"w", "e", "e", "k", "l", "y">>,
      << >>, <<" ">> \o monthly, annual \o <<" ">>, <<"1">>, <<"1", "2">> }

FrequencyInputs == UNION {{w, Capitalized(w), UpperCased(w)} : w \in Words}

----------------------------------------------------------------------------
(* The caller: one call at a time; a returned call is consumed by Return.  *)
(* args keeps the amounts as given, in mills; the operation receives the   *)
(* float.                                                                  *)

NoCall == [none |-> TRUE]

(* The session when run_calculator shows the main menu for the first time: *)
(* no local variable is bound yet and nothing has been calculated.         *)
Started ==
    [ at           |-> "main_menu",
      gross_income |-> NoValue,
      expenses     |-> NoValue,
      frequency    |-> << >>,
      calculations |-> 0,
      passed       |-> NoValue,
      results      |-> NoValue,
      schedules    |-> << >>,
      files        |-> 0,
      typed        |-> NoValue ]

(* Independent call sites, for the calls that run concurrently. *)
Threads == {1, 2}
Idle == [pc |-> "idle"]
NoFrame == [none |-> TRUE]

Init ==
    /\ brackets = INCOME_TAX_BRACKETS
    /\ frequencies = VALID_FREQUENCIES
    /\ pc = "ready"
    /\ op = "none"
    /\ args = NoCall
    /\ ret = NoValue
    /\ raised = "none"
    /\ earlier = NoCall
    /\ calls = [t \in Threads |-> Idle]
    /\ frames = [t \in Threads |-> NoFrame]
    /\ session = Started

(* The calls that are kept and made again: arguments the source names      *)
(* (docstring examples), with a frequency that is rejected.                *)
RepeatedArguments ==
    {[gross_income |-> g, deductible_expenses |-> e] :
        g \in {0, 15000000, 35000000}, e \in {0, 5000000}}
    \cup {[taxable_income |-> t] : t \in {0, 15000000, 50000000}}
    \cup {[gross_income |-> g] : g \in {0, 15000000, 35000000}}
    \cup {[annual_tax |-> 12000000, frequency |-> f] :
            f \in {monthly, Capitalized(quarterly), <<"b", "o", "g", "u", "s">>}}

(* Once a call has been kept, the calls that follow are among the calls    *)
(* that are made again.                                                    *)
Explored(arguments) == earlier = NoCall \/ arguments \in RepeatedArguments

(* Mutant: calculate_income_tax takes the last bracket off the table. *)
Ends_popping_bracket(name, arguments, value, exception) ==
    /\ Explored(arguments)
    /\ pc' = "returned"
    /\ op' = name
    /\ args' = arguments
    /\ ret' = value
    /\ raised' = exception
    /\ brackets' = IF name = "calculate_income_tax" /\ brackets # << >>
                   THEN SubSeq(brackets, 1, Len(brackets) - 1)
                   ELSE brackets
    /\ UNCHANGED session
    /\ UNCHANGED <<frequencies, earlier, calls, frames>>

Ends(name, arguments, value, exception) ==
    /\ Explored(arguments)
    /\ pc' = "returned"
    /\ op' = name
    /\ args' = arguments
    /\ ret' = value
    /\ raised' = exception
    /\ UNCHANGED session
    /\ UNCHANGED <<brackets, frequencies, earlier, calls, frames>>

Returns(name, arguments, value) == Ends(name, arguments, value, "none")

CallTaxableIncome ==
    /\ pc = "ready"
    /\ \E g \in GrossInputs, e \in ExpenseInputs :
           Returns("calculate_taxable_income",
                   [gross_income |-> g, deductible_expenses |-> e],
                   [value |-> calculate_taxable_income(Amount(g), Amount(e))])

CallIncomeTax ==
    /\ pc = "ready"
    /\ \E t \in TaxableInputs :
           Returns("calculate_income_tax", [taxable_income |-> t],
                   calculate_income_tax(Amount(t)))

CallVat ==
    /\ pc = "ready"
    /\ \E g \in GrossInputs :
           Returns("calculate_vat", [gross_income |-> g],
                   calculate_vat(Amount(g)))

CallSocialSecurity ==
    /\ pc = "ready"
    /\ \E g \in GrossInputs :
           Returns("calculate_social_security", [gross_income |-> g],
                   calculate_social_security(Amount(g)))

CallAllTaxes ==
    /\ pc = "ready"
    /\ \E g \in GrossInputs, e \in ExpenseInputs :
           Returns("calculate_all_taxes",
                   [gross_income |-> g, deductible_expenses |-> e],
                   calculate_all_taxes(Amount(g), Amount(e)))

CallPaymentSchedule ==
    /\ pc = "ready"
    /\ \E a \in AnnualInputs, f \in FrequencyInputs :
           LET Outcome(r) ==
                   Ends("calculate_payment_schedule",
                        [annual_tax |-> a, frequency |-> f],
                        r.value, r.raised)
           IN  Outcome(calculate_payment_schedule(Amount(a), f))

(* The tokens display_frequency_menu returns for the choices 1, 2 and 3. *)
display_frequency_menu == {monthly, quarterly, annual}

(* Mutant: the schedule built from the obligations, VAT included. *)
ScheduledTotal_with_vat(calculation_dict) ==
    Money(calculation_dict.total_obligations)

(* total_taxes = calculation_dict['total_taxes'], the amount scheduled *)
ScheduledTotal(calculation_dict) == Money(calculation_dict.total_taxes)

(* display_results(calculation_dict, payment_frequency), called by         *)
(* perform_calculation on the summary calculate_all_taxes has returned for *)
(* the validated inputs (gross > 0, 0 <= expenses <= gross): the payment   *)
(* schedule is built from the summary's total_taxes.                       *)
DisplayResults ==
    /\ pc = "returned"
    /\ op = "calculate_all_taxes"
    /\ args.gross_income > 0
    /\ args.deductible_expenses >= 0
    /\ args.deductible_expenses <= args.gross_income
    /\ \E f \in display_frequency_menu :
           LET Outcome(r) ==
                   Ends("display_results",
                        [calculation_dict |-> ret, payment_frequency |-> f],
                        r.value, r.raised)
           IN  Outcome(calculate_payment_schedule(ScheduledTotal(ret), f))

Return ==
    /\ pc = "returned"
    /\ pc' = "ready"
    /\ op' = "none"
    /\ args' = NoCall
    /\ ret' = NoValue
    /\ raised' = "none"
    /\ UNCHANGED session
    /\ UNCHANGED <<brackets, frequencies, earlier, calls, frames>>

(* The caller keeps the outcome of the call that has returned, as          *)
(* perform_calculation keeps `results` while display_results and           *)
(* save_results_to_file call calculate_payment_schedule, each with the     *)
(* same arguments.                                                         *)
Keep ==
    /\ pc = "returned"
    /\ earlier = NoCall
    /\ args \in RepeatedArguments
    /\ earlier' = [op |-> op, args |-> args, ret |-> ret, raised |-> raised]
    /\ pc' = "ready"
    /\ op' = "none"
    /\ args' = NoCall
    /\ ret' = NoValue
    /\ raised' = "none"
    /\ UNCHANGED session
    /\ UNCHANGED <<brackets, frequencies, calls, frames>>

Next ==
    \/ CallTaxableIncome
    \/ CallIncomeTax
    \/ CallVat
    \/ CallSocialSecurity
    \/ CallAllTaxes
    \/ CallPaymentSchedule
    \/ DisplayResults
    \/ Return
    \/ Keep

Spec == Init /\ [][Next]_vars

----------------------------------------------------------------------------
(* Concurrent callers.  Each thread makes one call at a time.  A call's    *)
(* local variables are its own; what calls share are the module globals:   *)
(* calculate_income_tax reads INCOME_TAX_BRACKETS once in each iteration   *)
(* of its loop, calculate_payment_schedule reads VALID_FREQUENCIES when it *)
(* validates.  A step of a thread holds one read of a global, so threads   *)
(* interleave between the iterations of the loop.  The rate constants are  *)
(* module-level floats that no statement assigns after their definition.   *)

(* Mutant: every call runs in the frame of thread 1. *)
Frame_shared(t) == 1

(* The frame of the call of thread t: the local variables of a call belong *)
(* to the call.                                                            *)
Frame(t) == t

(* The calls the threads make: arguments the source names. *)
ThreadCalls ==
    {[op |-> "calculate_income_tax", args |-> [taxable_income |-> T]] :
        T \in {0, 15000000, 50000000}}
    \cup {[op |-> "calculate_all_taxes",
           args |-> [gross_income |-> g[1], deductible_expenses |-> g[2]]] :
            g \in {<<0, 0>>, <<35000000, 5000000>>}}
    \cup {[op |-> "calculate_taxable_income",
           args |-> [gross_income |-> 15000000,
                     deductible_expenses |-> 5000000]]}
    \cup {[op |-> o, args |-> [gross_income |-> 15000000]] :
            o \in {"calculate_vat", "calculate_social_security"}}
    \cup {[op |-> "calculate_payment_schedule",
           args |-> [annual_tax |-> 12000000, frequency |-> f]] :
            f \in {quarterly, <<"b", "o", "g", "u", "s">>}}

(* The taxable income the bracket loop of a call works on: the argument of *)
(* calculate_income_tax; in calculate_all_taxes, for gross_income > 0, the *)
(* taxable income it computes; nothing in a call that has no loop.         *)
LoopIncome(call) ==
    IF call.op = "calculate_income_tax"
    THEN Amount(call.args.taxable_income)
    ELSE IF call.op = "calculate_all_taxes" /\ call.args.gross_income > 0
    THEN Money(calculate_taxable_income(
                   Amount(call.args.gross_income),
                   Amount(call.args.deductible_expenses)))
    ELSE Zero

(* "Initialize tracking variables" *)
EnterLoop(taxable_income) ==
    [ taxable_income         |-> taxable_income,
      i                      |-> 1,
      total_tax              |-> Zero,
      bracket_breakdown      |-> << >>,
      remaining_income       |-> taxable_income,
      previous_bracket_limit |-> Zero ]

(* The loop of the frame has an iteration to run. *)
Looping(frame) ==
    /\ frame # NoFrame
    /\ FCmp(frame.taxable_income, Zero) > 0
    /\ ~ LoopEnds(frame.i, frame.remaining_income)

(* The frame after one iteration of its loop. *)
Iterated(frame) ==
    LET After(l) ==
            [ taxable_income         |-> frame.taxable_income,
              i                      |-> l.i,
              total_tax              |-> l.total_tax,
              bracket_breakdown      |-> l.bracket_breakdown,
              remaining_income       |-> l.remaining_income,
              previous_bracket_limit |-> l.previous_bracket_limit ]
    IN  After(LoopBody(frame.i, frame.total_tax, frame.bracket_breakdown,
                       frame.remaining_income,
                       frame.previous_bracket_limit))

(* What calculate_income_tax returns from the frame its loop has left. *)
IncomeTaxOf(frame) ==
    IF FCmp(frame.taxable_income, Zero) <= 0 THEN NothingToTax
    ELSE IncomeTaxResult([total_tax         |-> frame.total_tax,
                          bracket_breakdown |-> frame.bracket_breakdown],
                         frame.taxable_income)

(* What calculate_all_taxes returns, the income tax taken from the frame. *)
AllTaxesOf(gross_income, deductible_expenses, frame) ==
    IF FCmp(gross_income, Zero) <= 0
    THEN ZeroSummary(gross_income, deductible_expenses)
    ELSE Summarize(gross_income, deductible_expenses, frame.taxable_income,
                   [Components(gross_income, frame.taxable_income)
                        EXCEPT !.income_tax = IncomeTaxOf(frame)])

(* The outcome of a call whose loop, if it has one, is over. *)
Outcome(call, frame) ==
    IF call.op = "calculate_income_tax"
    THEN [raised |-> "none", value |-> IncomeTaxOf(frame)]
    ELSE IF call.op = "calculate_all_taxes"
    THEN [raised |-> "none",
          value  |-> AllTaxesOf(Amount(call.args.gross_income),
                                Amount(call.args.deductible_expenses), frame)]
    ELSE IF call.op = "calculate_taxable_income"
    THEN [raised |-> "none",
          value  |-> [value |-> calculate_taxable_income(
                                    Amount(call.args.gross_income),
                                    Amount(call.args.deductible_expenses))]]
    ELSE IF call.op = "calculate_vat"
    THEN [raised |-> "none",
          value  |-> calculate_vat(Amount(call.args.gross_income))]
    ELSE IF call.op = "calculate_social_security"
    THEN [raised |-> "none",
          value  |-> calculate_social_security(Amount(call.args.gross_income))]
    ELSE calculate_payment_schedule(Amount(call.args.annual_tax),
                                    call.args.frequency)

(* The number of dictionaries and lists an outcome is made of, each built  *)
(* by a display ({...}, [], [...]) or an append in the call.               *)
Structures(call, outcome) ==
    IF outcome.raised # "none" \/ call.op = "calculate_taxable_income" THEN 0
    ELSE IF call.op = "calculate_income_tax"
    THEN 2 + Len(outcome.value.bracket_breakdown)
    ELSE IF call.op = "calculate_all_taxes"
    THEN 5 + Len(outcome.value.income_tax.bracket_breakdown)
    ELSE IF call.op = "calculate_payment_schedule"
    THEN 2 + Len(outcome.value.schedule)
    ELSE 1

(* The n structures built by the call that runs in a frame: the k-th       *)
(* display the call evaluates builds a structure of its own.               *)
Built(frame, n) == {<<frame, k>> : k \in 1..n}

(* A thread calls an operation: the call's frame is set up. *)
Begin(t) ==
    /\ calls[t].pc = "idle"
    /\ \E call \in ThreadCalls :
          /\ calls' = [calls EXCEPT ![t] =
                 [pc |-> "running", op |-> call.op, args |-> call.args]]
          /\ frames' = [frames EXCEPT ![Frame(t)] =
                 EnterLoop(LoopIncome(call))]
    /\ UNCHANGED session
    /\ UNCHANGED <<brackets, frequencies, pc, op, args, ret, raised, earlier>>

(* One iteration of the bracket loop of the call of thread t. *)
Iterate(t) ==
    /\ calls[t].pc = "running"
    /\ Looping(frames[Frame(t)])
    /\ frames' = [frames EXCEPT ![Frame(t)] = Iterated(frames[Frame(t)])]
    /\ UNCHANGED session
    /\ UNCHANGED <<brackets, frequencies, pc, op, args, ret, raised, earlier,
                   calls>>

(* The call of thread t returns or raises; its frame is gone. *)
Finish(t) ==
    /\ calls[t].pc = "running"
    /\ frames[Frame(t)] # NoFrame
    /\ ~ Looping(frames[Frame(t)])
    /\ LET Leave(outcome) ==
               calls' = [calls EXCEPT ![t] =
                   [ pc      |-> "returned",
                     op      |-> calls[t].op,
                     args    |-> calls[t].args,
                     ret     |-> outcome.value,
                     raised  |-> outcome.raised,
                     objects |-> Built(Frame(t), Structures(calls[t], outcome)) ]]
       IN  Leave(Outcome(calls[t], frames[Frame(t)]))
    /\ frames' = [frames EXCEPT ![Frame(t)] = NoFrame]
    /\ UNCHANGED session
    /\ UNCHANGED <<brackets, frequencies, pc, op, args, ret, raised, earlier>>

(* The caller is done with the outcome. *)
Collect(t) ==
    /\ calls[t].pc = "returned"
    /\ calls' = [calls EXCEPT ![t] = Idle]
    /\ UNCHANGED session
    /\ UNCHANGED <<brackets, frequencies, pc, op, args, ret, raised, earlier,
                   frames>>

NextConcurrent ==
    \E t \in Threads :
        \/ Begin(t)
        \/ Iterate(t)
        \/ Finish(t)
        \/ Collect(t)

Concurrent == Init /\ [][NextConcurrent]_vars

----------------------------------------------------------------------------
(* The command line (main.py).  What the user types is a Python str, a     *)
(* sequence of characters.                                                 *)

Digits == <<"0", "1", "2", "3", "4", "5", "6", "7", "8", "9">>

IsDigit(c) == \E i \in DOMAIN Digits : Digits[i] = c
DigitValue(c) == (CHOOSE i \in DOMAIN Digits : Digits[i] = c) - 1

(* str.strip(): the spaces at both ends removed. *)
RECURSIVE strip(_)
strip(s) ==
    IF s = << >> THEN s
    ELSE IF Head(s) = " " THEN strip(Tail(s))
    ELSE IF s[Len(s)] = " " THEN strip(SubSeq(s, 1, Len(s) - 1))
    ELSE s

(* float('nan'): no number; every comparison with it is False. *)
NaN == [nan |-> TRUE]

(* The integer a sequence of decimal digits writes. *)
RECURSIVE Written(_)
Written(digits) ==
    IF digits = << >> THEN 0
    ELSE 10 * Written(SubSeq(digits, 1, Len(digits) - 1))
         + DigitValue(digits[Len(digits)])

RECURSIVE PowerOfTen(_)
PowerOfTen(n) == IF n = 0 THEN 1 ELSE 10 * PowerOfTen(n - 1)

(* u is digits with at most one point among them. *)
IsDecimal(u) ==
    /\ \E i \in DOMAIN u : IsDigit(u[i])
    /\ \A i \in DOMAIN u : IsDigit(u[i]) \/ u[i] = "."
    /\ Cardinality({i \in DOMAIN u : u[i] = "."}) <= 1

(* The digits of u after its point. *)
Decimals(u) ==
    Cardinality({i \in DOMAIN u : \E j \in 1..(i - 1) : u[j] = "."})

(* float(s) of a text of digits, sign, point and letters: an optional sign *)
(* before a decimal numeral, nan, inf or infinity in any case; any other   *)
(* such text raises ValueError ("could not convert string to float").      *)
float(s) ==
    LET Signed(sign, u) ==
            IF lower(u) = <<"n", "a", "n">>
            THEN [raised |-> "none", value |-> NaN]
            ELSE IF lower(u) \in {<<"i", "n", "f">>,
                                  <<"i", "n", "f", "i", "n", "i", "t", "y">>}
            THEN [raised |-> "none",
                  value  |-> IF sign = 1 THEN Infinity ELSE FNeg(Infinity)]
            ELSE IF IsDecimal(u)
            THEN [raised |-> "none",
                  value  |-> Dec(sign * Written(SelectSeq(u, IsDigit)),
                                 PowerOfTen(Decimals(u)))]
            ELSE [raised |-> "ValueError", value |-> NoValue]
        Stripped(t) ==
            IF t # << >> /\ Head(t) = "-" THEN Signed(-1, Tail(t))
            ELSE IF t # << >> /\ Head(t) = "+" THEN Signed(1, Tail(t))
            ELSE Signed(1, t)
    IN  Stripped(strip(s))

(* x < y, x <= y and x > y of two floats: False when either is nan. *)
Less(x, y) == x # NaN /\ y # NaN /\ FCmp(x, y) < 0
LessOrEqual(x, y) == x # NaN /\ y # NaN /\ FCmp(x, y) <= 0
Greater(x, y) == x # NaN /\ y # NaN /\ FCmp(x, y) > 0

Rejected == [raised |-> "ValueError", value |-> NoValue]
Valid(value) == [raised |-> "none", value |-> value]

(* validate_positive_number: float(value_str.strip()), rejected when the   *)
(* text is no number or `value <= 0`.                                      *)
validate_positive_number(value_str) ==
    LET Checked(parsed) ==
            IF parsed.raised # "none" THEN Rejected
            ELSE IF LessOrEqual(parsed.value, Zero) THEN Rejected
            ELSE Valid(parsed.value)
    IN  Checked(float(strip(value_str)))

(* validate_non_negative_number: rejected when the text is no number or    *)
(* `value < 0`.                                                            *)
validate_non_negative_number(value_str) ==
    LET Checked(parsed) ==
            IF parsed.raised # "none" THEN Rejected
            ELSE IF Less(parsed.value, Zero) THEN Rejected
            ELSE Valid(parsed.value)
    IN  Checked(float(strip(value_str)))

(* validate_expenses_against_income raises when `expenses > gross_income`. *)
validate_expenses_against_income(expenses, gross_income) ==
    IF Greater(expenses, gross_income) THEN Rejected ELSE Valid(NoValue)

(* The default max_amount of validate_realistic_amount. *)
max_amount == 10000000

(* validate_realistic_amount raises when `value > max_amount`. *)
validate_realistic_amount(value) ==
    IF Greater(value, FInt(max_amount)) THEN Rejected ELSE Valid(NoValue)

(* What the user types at the prompts. *)
MenuTexts == {<<" ", "1">>, <<"2">>, <<"3">>, << >>}

AmountTexts ==
    { << >>, <<"a", "b", "c">>, <<"0">>, <<"-", "5">>,
      <<"n", "a", "n">>, <<" ", "5", "0", "0", "0", " ">>,
      <<"1", "0", "0", "0", "0", "0", "0", "0">>,
      <<"1", "0", "0", "0", "0", "0", "0", "0", ".", "0", "1">> }

ConfirmTexts ==
    { <<"y", "e", "s">>, <<"Y">>, <<"n", "o">>, <<"n">>,
      <<"m", "a", "y", "b", "e">> }

(* The calculations of one session. *)
MaxCalculations == 1

(* One pass of the loop of get_gross_income: the text is refused when it   *)
(* is empty or a validator raises, and the prompt is shown again.          *)
get_gross_income(value_str) ==
    LET Realistic(checked) ==
            IF checked.raised # "none" THEN Rejected
            ELSE IF validate_realistic_amount(checked.value).raised # "none"
            THEN Rejected
            ELSE checked
    IN  IF strip(value_str) = << >> THEN Rejected
        ELSE Realistic(validate_positive_number(strip(value_str)))

(* One pass of the loop of get_deductible_expenses(gross_income). *)
get_deductible_expenses(value_str, gross_income) ==
    LET Realistic(checked) ==
            IF checked.raised # "none" THEN Rejected
            ELSE IF validate_expenses_against_income(
                        checked.value, gross_income).raised # "none"
            THEN Rejected
            ELSE IF validate_realistic_amount(checked.value).raised # "none"
            THEN Rejected
            ELSE checked
    IN  IF strip(value_str) = << >> THEN Rejected
        ELSE Realistic(validate_non_negative_number(strip(value_str)))

(* Mutant: choice 3 returned as 'yearly'. *)
frequency_of_choice_yearly(choice) ==
    IF choice = <<"1">> THEN Valid(monthly)
    ELSE IF choice = <<"2">> THEN Valid(quarterly)
    ELSE IF choice = <<"3">> THEN Valid(<<"y", "e", "a", "r", "l", "y">>)
    ELSE Rejected

(* One pass of the loop of display_frequency_menu: '1', '2' and '3' return *)
(* a frequency, any other choice is refused.                               *)
frequency_of_choice(choice) ==
    IF choice = <<"1">> THEN Valid(monthly)
    ELSE IF choice = <<"2">> THEN Valid(quarterly)
    ELSE IF choice = <<"3">> THEN Valid(annual)
    ELSE Rejected

(* Mutant: every answer but 'no' and 'n' taken as a confirmation. *)
confirm_inputs_unless_no(response) ==
    IF response \in {<<"n", "o">>, <<"n">>} THEN Valid(FALSE)
    ELSE Valid(TRUE)

(* One pass of the loop of confirm_inputs on the lower-cased answer. *)
confirm_inputs(response) ==
    IF response \in {<<"y", "e", "s">>, <<"y">>} THEN Valid(TRUE)
    ELSE IF response \in {<<"n", "o">>, <<"n">>} THEN Valid(FALSE)
    ELSE Rejected

(* calculate_all_taxes on the floats the session passes.  With a gross     *)
(* income of nan no comparison holds and every amount derived from it is   *)
(* nan; the taxable income max(0.0, nan) is 0.0 and the effective rate     *)
(* takes the `else 0.0`, as for a gross income of 0.  With expenses of nan *)
(* the taxable income is 0.0 as well, as with expenses equal to the gross  *)
(* income.                                                                 *)
results_of(gross_income, expenses) ==
    LET OfNumbers(summary) ==
            IF gross_income = NaN
            THEN [ summary EXCEPT
                     !.gross_income = NaN,
                     !.deductible_expenses =
                         IF expenses = NaN THEN NaN ELSE round2(expenses),
                     !.vat = [@ EXCEPT !.vat_amount = NaN,
                                       !.total_with_vat = NaN],
                     !.social_security =
                         [@ EXCEPT !.total_contribution = NaN,
                                   !.main_insurance = NaN,
                                   !.additional_contributions = NaN],
                     !.total_taxes = NaN,
                     !.total_obligations = NaN,
                     !.net_income = NaN ]
            ELSE IF expenses = NaN
            THEN [summary EXCEPT !.deductible_expenses = NaN]
            ELSE summary
    IN  OfNumbers(calculate_all_taxes(
            IF gross_income = NaN THEN Zero ELSE gross_income,
            IF gross_income = NaN THEN Zero
            ELSE IF expenses = NaN THEN gross_income
            ELSE expenses))

(* calculate_payment_schedule(total_taxes, payment_frequency) as           *)
(* display_results and save_results_to_file call it; of a total of nan     *)
(* every amount of the schedule is nan.                                    *)
schedule_of(gross_income, results, payment_frequency) ==
    IF gross_income = NaN
    THEN IF IsValidFrequency(payment_frequency)
         THEN [raised |-> "none", value |-> NaN]
         ELSE [raised |-> "ValueError", value |-> NoValue]
    ELSE calculate_payment_schedule(ScheduledTotal(results),
                                    payment_frequency)

(* perform_calculation: calculate_all_taxes, display_results and, when     *)
(* that returned, save_results_to_file, which writes the file unless its   *)
(* schedule, the same as the displayed one, raises or the write fails      *)
(* (written = FALSE).  Every exception is caught.                          *)
perform_calculation(gross_income, expenses, frequency, written) ==
    LET Saved(results, schedule) ==
            [ results   |-> results,
              schedules |-> IF schedule.raised = "none"
                            THEN <<schedule.raised, schedule.raised>>
                            ELSE <<schedule.raised>>,
              written   |-> schedule.raised = "none" /\ written ]
        Displayed(results) ==
            Saved(results, schedule_of(gross_income, results, frequency))
    IN  Displayed(results_of(gross_income, expenses))

(* The variables of the library's callers, which the session leaves alone. *)
library ==
    <<brackets, frequencies, pc, op, args, ret, raised, earlier, calls, frames>>

(* The main menu reads a choice: '1' starts a new calculation, '2' exits,  *)
(* anything else shows the menu again.                                     *)
MainMenu ==
    /\ session.at = "main_menu"
    /\ \E choice \in MenuTexts :
          /\ strip(choice) = <<"1">> =>
                 session.calculations < MaxCalculations
          /\ session' =
                 [session EXCEPT
                    !.typed = [text |-> choice],
                    !.at = IF strip(choice) = <<"1">> THEN "gross_income"
                           ELSE IF strip(choice) = <<"2">> THEN "exited"
                           ELSE @]
    /\ UNCHANGED library

(* get_gross_income reads a text. *)
GetGrossIncome ==
    /\ session.at = "gross_income"
    /\ \E value_str \in AmountTexts :
          LET Read(outcome) ==
                  IF outcome.raised = "none"
                  THEN [session EXCEPT !.typed = [text |-> value_str],
                                       !.gross_income = outcome.value,
                                       !.at = "expenses"]
                  ELSE [session EXCEPT !.typed = [text |-> value_str]]
          IN  session' = Read(get_gross_income(value_str))
    /\ UNCHANGED library

(* get_deductible_expenses(gross_income) reads a text. *)
GetDeductibleExpenses ==
    /\ session.at = "expenses"
    /\ \E value_str \in AmountTexts :
          LET Read(outcome) ==
                  IF outcome.raised = "none"
                  THEN [session EXCEPT !.typed = [text |-> value_str],
                                       !.expenses = outcome.value,
                                       !.at = "frequency"]
                  ELSE [session EXCEPT !.typed = [text |-> value_str]]
          IN  session' = Read(get_deductible_expenses(value_str,
                                                      session.gross_income))
    /\ UNCHANGED library

(* display_frequency_menu reads a choice. *)
SelectFrequency ==
    /\ session.at = "frequency"
    /\ \E choice \in MenuTexts :
          LET Read(outcome) ==
                  IF outcome.raised = "none"
                  THEN [session EXCEPT !.typed = [text |-> choice],
                                       !.frequency = outcome.value,
                                       !.at = "confirm"]
                  ELSE [session EXCEPT !.typed = [text |-> choice]]
          IN  session' = Read(frequency_of_choice(strip(choice)))
    /\ UNCHANGED library

(* confirm_inputs reads an answer: confirmed, the calculation follows;     *)
(* declined, run_calculator goes back to the main menu.                    *)
ConfirmInputs ==
    /\ session.at = "confirm"
    /\ \E response \in ConfirmTexts :
          LET Read(outcome) ==
                  IF outcome.raised # "none"
                  THEN [session EXCEPT !.typed = [text |-> response]]
                  ELSE [session EXCEPT
                          !.typed = [text |-> response],
                          !.at = IF outcome.value THEN "calculating"
                                 ELSE "main_menu"]
          IN  session' = Read(confirm_inputs(lower(strip(response))))
    /\ UNCHANGED library

(* EOFError or KeyboardInterrupt at a prompt: confirm_inputs returns False *)
(* and the main menu follows; at every other prompt the program exits.     *)
Interrupt ==
    /\ session.at \in {"main_menu", "gross_income", "expenses", "frequency",
                       "confirm"}
    /\ session' =
           [session EXCEPT
              !.typed = NoValue,
              !.at = IF @ = "confirm" THEN "main_menu" ELSE "exited"]
    /\ UNCHANGED library

(* perform_calculation runs and run_calculator goes back to the main menu. *)
PerformCalculation ==
    /\ session.at = "calculating"
    /\ \E written \in BOOLEAN :
          LET Done(performed) ==
                  [session EXCEPT
                     !.at = "main_menu",
                     !.calculations = @ + 1,
                     !.passed = [gross_income        |-> session.gross_income,
                                 deductible_expenses |-> session.expenses],
                     !.results = performed.results,
                     !.schedules = performed.schedules,
                     !.files = IF performed.written THEN @ + 1 ELSE @]
          IN  session' = Done(perform_calculation(session.gross_income,
                                                  session.expenses,
                                                  session.frequency, written))
    /\ UNCHANGED library

NextSession ==
    \/ MainMenu
    \/ GetGrossIncome
    \/ GetDeductibleExpenses
    \/ SelectFrequency
    \/ ConfirmInputs
    \/ Interrupt
    \/ PerformCalculation

Session == Init /\ [][NextSession]_vars

----------------------------------------------------------------------------
(* Claims.  The claims speak of decimal amounts; their formulas compute in *)
(* exact integer arithmetic on the mills of the arguments and the          *)
(* hundredths of the results.                                              *)

Abs(x) == IF x >= 0 THEN x ELSE -x
Max(a, b) == IF a >= b THEN a ELSE b
Min(a, b) == IF a <= b THEN a ELSE b

(* "Rounded to 2 decimals": the integers nearest to a * num / den, both    *)
(* neighbours on an exact tie (den > 0, num >= 0).  a * num is not formed: *)
(* a is split by den to stay inside 32-bit integers.                       *)
Nearest(a, num, den) ==
    LET q    == a \div den
        r    == a % den
        f    == (r * num) \div den
        rem  == (r * num) % den
        base == q * num + f
    IN  IF 2 * rem < den THEN {base}
        ELSE IF 2 * rem > den THEN {base + 1}
        ELSE {base, base + 1}

IsCall(name) == pc = "returned" /\ op = name

(* The part of an amount t lying in the band (lo, hi]. *)
Part(t, lo, hi) == Max(0, Min(t, hi) - lo)

(* The progressive reference tax of t mills, in mills * percent: 9% of the *)
(* part in (0, 10000], 22% of (10000, 20000], 28% of (20000, 30000], 36%   *)
(* of (30000, 40000] and 44% of the part above 40000 EUR.                  *)
ProgressiveReference(t) ==
      9 * Part(t, 0, 10000000)
    + 22 * Part(t, 10000000, 20000000)
    + 28 * Part(t, 20000000, 30000000)
    + 36 * Part(t, 30000000, 40000000)
    + 44 * Max(0, t - 40000000)

(* C1: for every taxable income T >= 0 the total_tax returned by           *)
(* calculate_income_tax is the progressive reference value rounded to 2    *)
(* decimals (a cent nearest to it); 3000 gives 270.00, 15000 gives 2000.00 *)
(* and 50000 gives 13900.00.                                               *)
C1_ProgressiveTax ==
    (IsCall("calculate_income_tax") /\ args.taxable_income >= 0) =>
        /\ ret.total_tax \in Nearest(ProgressiveReference(args.taxable_income),
                                      1, 1000)
        /\ args.taxable_income = 3000000 => ret.total_tax = 27000
        /\ args.taxable_income = 15000000 => ret.total_tax = 200000
        /\ args.taxable_income = 50000000 => ret.total_tax = 1390000

(* C1 witness: 50000 EUR, taxed through all five brackets, gives 13900.00. *)
C1_Witness ==
    /\ IsCall("calculate_income_tax")
    /\ args.taxable_income = 50000000
    /\ Len(ret.bracket_breakdown) = 5
    /\ ret.total_tax = 1390000

(* C2: for gross >= 0 and expenses >= 0, calculate_taxable_income returns  *)
(* max(0, gross - expenses) rounded to 2 decimals, never a negative value, *)
(* and 0 when the expenses exceed the gross income.                        *)
C2_TaxableIncome ==
    (/\ IsCall("calculate_taxable_income")
     /\ args.gross_income >= 0
     /\ args.deductible_expenses >= 0) =>
        LET g == args.gross_income
            e == args.deductible_expenses
        IN  /\ ret.value >= 0
            /\ ret.value \in Nearest(Max(0, g - e), 1, 10)
            /\ e >= g => ret.value = 0

(* C2 witness: expenses above a positive gross income give 0. *)
C2_Witness ==
    /\ IsCall("calculate_taxable_income")
    /\ args.gross_income > 0
    /\ args.deductible_expenses > args.gross_income
    /\ ret.value = 0

(* A summary returned for a positive gross income and non-negative         *)
(* expenses.                                                               *)
IsSummary ==
    /\ IsCall("calculate_all_taxes")
    /\ args.gross_income > 0
    /\ args.deductible_expenses >= 0

(* C3: in the summary of gross > 0, expenses >= 0, total_taxes is          *)
(* income_tax.total_tax + social_security.total_contribution, VAT not      *)
(* included, and total_obligations is total_taxes + vat.vat_amount.        *)
C3_TotalsExcludeVat ==
    IsSummary =>
        /\ ret.total_taxes = ret.income_tax.total_tax
                                 + ret.social_security.total_contribution
        /\ ret.total_obligations = ret.total_taxes + ret.vat.vat_amount

(* C3 witness: docstring example 1, 15000 with no expenses: 2000.00 of     *)
(* income tax and 3000.00 of social security make 5000.00, VAT 3600.00     *)
(* counted in the obligations only.                                        *)
C3_Witness ==
    /\ IsSummary
    /\ args.gross_income = 15000000
    /\ args.deductible_expenses = 0
    /\ ret.total_taxes = 500000
    /\ ret.vat.vat_amount = 360000
    /\ ret.total_obligations = 860000

(* C4 as stated: in every summary of gross > 0, expenses >= 0,             *)
(* net_income + total_taxes = gross_income.                                *)
C4_NetPlusTaxesIsGross ==
    IsSummary => ret.net_income + ret.total_taxes = ret.gross_income

(* C4 amended: net_income is gross minus total_taxes (VAT not subtracted)  *)
(* rounded to 2 decimals; net_income + total_taxes equals the summary's    *)
(* gross_income when gross is a whole number of cents, and is within 0.01  *)
(* of it otherwise.                                                        *)
C4_NetIncome ==
    IsSummary =>
        /\ ret.net_income
               \in Nearest(args.gross_income - 10 * ret.total_taxes, 1, 10)
        /\ args.gross_income % 10 = 0
               => ret.net_income + ret.total_taxes = ret.gross_income
        /\ Abs(ret.net_income + ret.total_taxes - ret.gross_income) <= 1

(* C4 witness: docstring example 2, 35000 with 5000 of expenses: taxes     *)
(* 12900.00, net income 22100.00, VAT 8400.00 not subtracted.              *)
C4_Witness ==
    /\ IsSummary
    /\ args.gross_income = 35000000
    /\ args.deductible_expenses = 5000000
    /\ ret.total_taxes = 1290000
    /\ ret.vat.vat_amount = 840000
    /\ ret.net_income = 2210000

(* C5: the social_security result inside a summary depends on the gross    *)
(* income only: whatever the expenses, it is the result of                 *)
(* calculate_social_security(gross), and its total is 20% of gross rounded *)
(* to 2 decimals, not 20% of the taxable income.                           *)
C5_SocialSecurityOnGross ==
    (IsCall("calculate_all_taxes") /\ args.gross_income > 0) =>
        /\ ret.social_security
               = calculate_social_security(Amount(args.gross_income))
        /\ ret.social_security.total_contribution
               \in Nearest(args.gross_income, 20, 1000)

(* C5 witness: 35000 with 5000 of expenses contributes 7000.00, 20% of the *)
(* gross income, where 20% of the taxable income would be 6000.00.         *)
C5_Witness ==
    /\ IsSummary
    /\ args.gross_income = 35000000
    /\ args.deductible_expenses = 5000000
    /\ ret.taxable_income = 3000000
    /\ ret.social_security.total_contribution = 700000

(* C6: for gross >= 0, calculate_social_security rounds gross x 13.33%,    *)
(* gross x 6.67% and gross x 20% each on its own; the total is the rounded *)
(* 20% of gross, not the sum of the two rounded parts, and the sum of the  *)
(* parts is within 0.01 of it.                                             *)
C6_IndependentRounding ==
    (IsCall("calculate_social_security") /\ args.gross_income >= 0) =>
        /\ ret.main_insurance \in Nearest(args.gross_income, 1333, 100000)
        /\ ret.additional_contributions
               \in Nearest(args.gross_income, 667, 100000)
        /\ ret.total_contribution \in Nearest(args.gross_income, 20, 1000)
        /\ Abs(ret.main_insurance + ret.additional_contributions
                   - ret.total_contribution) <= 1

(* C6 witness: 50.01 gives 6.67 + 3.34 = 10.01 against a total of 10.00.   *)
C6_Witness ==
    /\ IsCall("calculate_social_security")
    /\ args.gross_income = 50010
    /\ ret.main_insurance = 667
    /\ ret.additional_contributions = 334
    /\ ret.total_contribution = 1000

(* C7: for gross <= 0 and any expenses, calculate_all_taxes returns        *)
(* without raising, with taxable income 0, an empty bracket breakdown and  *)
(* zero income tax, VAT 0, social security 0, total taxes 0, total         *)
(* obligations 0, net income 0 and effective total rate 0.                 *)
C7_ZeroSummary ==
    (IsCall("calculate_all_taxes") /\ args.gross_income <= 0) =>
        /\ raised = "none"
        /\ ret.taxable_income = 0
        /\ ret.income_tax.bracket_breakdown = << >>
        /\ ret.income_tax.total_tax = 0
        /\ ret.income_tax.effective_rate = 0
        /\ ret.vat.vat_amount = 0
        /\ ret.vat.total_with_vat = 0
        /\ ret.social_security.total_contribution = 0
        /\ ret.social_security.main_insurance = 0
        /\ ret.social_security.additional_contributions = 0
        /\ ret.total_taxes = 0
        /\ ret.total_obligations = 0
        /\ ret.net_income = 0
        /\ ret.effective_total_rate = 0

(* C7 witness: a negative gross income is echoed, -0.03, while every       *)
(* computed field of the summary is zero.                                  *)
C7_Witness ==
    /\ IsCall("calculate_all_taxes")
    /\ args.gross_income = -30
    /\ args.deductible_expenses > 0
    /\ ret.gross_income = -3
    /\ ret.net_income = 0
    /\ ret.total_taxes = 0

(* The tokens calculate_payment_schedule accepts once lower-cased. *)
Accepted == {monthly, quarterly, annual}

(* C8: calculate_payment_schedule returns a schedule exactly when the      *)
(* lower-cased token is monthly, quarterly or annual, and then reports the *)
(* lower-cased token ("Monthly" is reported as "monthly"); for every other *)
(* token it raises the invalid-frequency error and returns nothing.        *)
C8_FrequencyValidation ==
    IsCall("calculate_payment_schedule") =>
        IF lower(args.frequency) \in Accepted
        THEN /\ raised = "none"
             /\ ret # NoValue
             /\ ret.frequency = lower(args.frequency)
             /\ ret.frequency \in Accepted
        ELSE /\ raised = "ValueError"
             /\ ret = NoValue

(* C8 witness: "Monthly" is accepted and reported as "monthly". *)
C8_Witness ==
    /\ IsCall("calculate_payment_schedule")
    /\ args.frequency = <<"M", "o", "n", "t", "h", "l", "y">>
    /\ raised = "none"
    /\ ret.frequency = monthly

(* C9: an accepted frequency gives number_of_payments 12 for monthly, 4    *)
(* for quarterly and 1 for annual, and a schedule of exactly that many     *)
(* entries, numbered 1, 2, ..., count in order, each with the result's     *)
(* payment_amount.                                                         *)
C9_ScheduleShape ==
    (IsCall("calculate_payment_schedule") /\ raised = "none") =>
        /\ ret.frequency = monthly => ret.number_of_payments = 12
        /\ ret.frequency = quarterly => ret.number_of_payments = 4
        /\ ret.frequency = annual => ret.number_of_payments = 1
        /\ Len(ret.schedule) = ret.number_of_payments
        /\ \A i \in 1..Len(ret.schedule) :
               /\ ret.schedule[i].period_number = i
               /\ ret.schedule[i].payment_amount = ret.payment_amount

(* C9 witness: docstring example, 12000 quarterly: 4 payments of 3000.00. *)
C9_Witness ==
    /\ IsCall("calculate_payment_schedule")
    /\ args.annual_tax = 12000000
    /\ raised = "none"
    /\ ret.frequency = quarterly
    /\ Len(ret.schedule) = 4
    /\ ret.schedule[4] = [period_number |-> 4, payment_amount |-> 300000]

(* C10: for an annual amount A >= 0 and an accepted frequency,             *)
(* payment_amount is A / count rounded to 2 decimals, every payment the    *)
(* same, and count x payment_amount is within count x 0.01 of A.           *)
C10_PaymentAmount ==
    (/\ IsCall("calculate_payment_schedule")
     /\ raised = "none"
     /\ args.annual_tax >= 0) =>
        LET count == ret.number_of_payments
        IN  /\ ret.payment_amount \in Nearest(args.annual_tax, 1, 10 * count)
            /\ Abs(count * ret.payment_amount * 10 - args.annual_tax)
                   <= count * 10

(* C10 witness: docstring example 4, 25900 monthly: 12 payments of         *)
(* 2158.33, which make 25899.96, not 25900.                                *)
C10_Witness ==
    /\ IsCall("calculate_payment_schedule")
    /\ args.annual_tax = 25900000
    /\ raised = "none"
    /\ ret.number_of_payments = 12
    /\ ret.payment_amount = 215833
    /\ 12 * ret.payment_amount # 2590000

(* The sum of the taxable_amount fields of a bracket breakdown, in cents. *)
RECURSIVE SumOfTaxableAmounts(_)
SumOfTaxableAmounts(breakdown) ==
    IF breakdown = << >> THEN 0
    ELSE Head(breakdown).taxable_amount + SumOfTaxableAmounts(Tail(breakdown))

(* C11: for every taxable income T >= 0 the taxable_amount fields of the   *)
(* bracket breakdown of calculate_income_tax(T) add up to T, within        *)
(* (number of brackets) x 0.01.                                            *)
C11_BreakdownSum ==
    (IsCall("calculate_income_tax") /\ args.taxable_income >= 0) =>
        Abs(10 * SumOfTaxableAmounts(ret.bracket_breakdown)
                - args.taxable_income) <= Len(brackets) * 10

(* C11 witness: 15000.003 is split into 10000.00 and 5000.00, which add up *)
(* to 15000.00, 0.003 short of the income.                                 *)
C11_Witness ==
    /\ IsCall("calculate_income_tax")
    /\ args.taxable_income = 15000003
    /\ Len(ret.bracket_breakdown) = 2
    /\ ret.bracket_breakdown[1].taxable_amount = 1000000
    /\ ret.bracket_breakdown[2].taxable_amount = 500000
    /\ SumOfTaxableAmounts(ret.bracket_breakdown) = 1500000

(* C12: the income tax is monotone: for 0 <= T1 <= T2, the total tax on T1 *)
(* is at most the total tax on T2.  The call that has returned is the one  *)
(* on T2; it is compared with the calls on every smaller taxable income.   *)
C12_Monotone ==
    (IsCall("calculate_income_tax") /\ args.taxable_income >= 0) =>
        \A T1 \in TaxableInputs :
            (0 <= T1 /\ T1 <= args.taxable_income) =>
                calculate_income_tax(Amount(T1)).total_tax <= ret.total_tax

C12_Witness ==
    /\ IsCall("calculate_income_tax")
    /\ args.taxable_income = 15000000
    /\ ret.total_tax = 200000
    /\ 10000000 \in TaxableInputs
    /\ calculate_income_tax(Amount(10000000)).total_tax = 90000

(* The lower bound of bracket i: the limit of the bracket before it. *)
LowerBound(i) == IF i = 1 THEN Zero ELSE brackets[i - 1].limit

(* The brackets a taxable income of T mills reaches. *)
Reached(T) == {i \in 1..Len(brackets) : FCmp(LowerBound(i), Amount(T)) < 0}

(* The breakdown lists the brackets T reaches and no other, ascending; at  *)
(* T = 0 it is empty with zero tax and zero rate.                          *)
ListsReached(T, result) ==
    /\ Len(result.bracket_breakdown) = Cardinality(Reached(T))
    /\ \A k \in 1..Len(result.bracket_breakdown) :
          /\ k \in Reached(T)
          /\ result.bracket_breakdown[k].bracket_min = LowerBound(k)
          /\ result.bracket_breakdown[k].bracket_max =
                 IF brackets[k].limit = Infinity THEN Unlimited
                 ELSE brackets[k].limit
    /\ T = 0 =>
          /\ result.bracket_breakdown = << >>
          /\ result.total_tax = 0
          /\ result.effective_rate = 0

(* Mills of T above the lower bound of the bracket of entry k. *)
AboveLowerBound(T, k) == T - round2(LowerBound(k)) * (MillsPerEuro \div CentsPerEuro)

(* C13 as stated: the breakdown lists exactly the brackets T reaches,      *)
(* ascending, and no entry has a zero taxed amount.                        *)
C13_NoZeroAmount ==
    (IsCall("calculate_income_tax") /\ args.taxable_income >= 0) =>
        /\ ListsReached(args.taxable_income, ret)
        /\ \A k \in 1..Len(ret.bracket_breakdown) :
              ret.bracket_breakdown[k].taxable_amount > 0

(* C13, amended: the breakdown lists exactly the brackets T reaches,       *)
(* ascending (none at T = 0, none for the next bracket at a boundary); no  *)
(* entry has a zero taxed amount when T is a whole number of cents, and    *)
(* for any T only the last entry can show 0.00, when T is above that       *)
(* bracket's lower bound by no more than half a cent.                      *)
C13_Breakdown ==
    (IsCall("calculate_income_tax") /\ args.taxable_income >= 0) =>
        /\ ListsReached(args.taxable_income, ret)
        /\ \A k \in 1..Len(ret.bracket_breakdown) :
              ret.bracket_breakdown[k].taxable_amount = 0 =>
                  /\ k = Len(ret.bracket_breakdown)
                  /\ args.taxable_income % 10 # 0
                  /\ AboveLowerBound(args.taxable_income, k) <= 5

C13_Witness ==
    /\ IsCall("calculate_income_tax")
    /\ args.taxable_income = 10000005
    /\ Len(ret.bracket_breakdown) = 2
    /\ ret.bracket_breakdown[1].taxable_amount = 1000000
    /\ ret.bracket_breakdown[2].taxable_amount = 0
    /\ ret.bracket_breakdown[2].bracket_min = Amount(10000000)

(* The integers nearest to 100 * a / den, both neighbours on an exact tie  *)
(* (a >= 0, den > 0): long division, two decimal digits after the point.   *)
NearestHundredths(a, den) ==
    LET Rounded(base, rem) ==
            IF 2 * rem < den THEN {base}
            ELSE IF 2 * rem > den THEN {base + 1}
            ELSE {base, base + 1}
        Second(base, rem) ==
            Rounded(10 * base + (10 * rem) \div den, (10 * rem) % den)
        First(base, rem) ==
            Second(10 * base + (10 * rem) \div den, (10 * rem) % den)
    IN  First(a \div den, a % den)

(* C14: for T > 0 the effective_rate of calculate_income_tax is the total  *)
(* tax divided by T, times 100, rounded to 2 decimals (9.00 at 3000, 13.33 *)
(* at 15000, 27.80 at 50000); it is 0 at T = 0, where the call returns     *)
(* without dividing.                                                       *)
C14_EffectiveRate ==
    (IsCall("calculate_income_tax") /\ args.taxable_income >= 0) =>
        /\ raised = "none"
        /\ args.taxable_income > 0 =>
              ret.effective_rate \in
                  NearestHundredths(ProgressiveReference(args.taxable_income),
                                    args.taxable_income)
        /\ args.taxable_income = 0 => ret.effective_rate = 0
        /\ args.taxable_income = 3000000 => ret.effective_rate = 900
        /\ args.taxable_income = 15000000 => ret.effective_rate = 1333
        /\ args.taxable_income = 50000000 => ret.effective_rate = 2780

C14_Witness ==
    /\ IsCall("calculate_income_tax")
    /\ args.taxable_income = 15000000
    /\ ret.total_tax = 200000
    /\ ret.effective_rate = 1333

(* C15: for gross >= 0, calculate_vat returns vat_amount = 24% of gross    *)
(* and total_with_vat = gross + 24% of gross, each rounded to 2 decimals,  *)
(* and rate 24; the VAT of a summary is that of its gross income, whatever *)
(* the expenses and the taxable income are.                                *)
C15_Vat ==
    /\ (IsCall("calculate_vat") /\ args.gross_income >= 0) =>
          /\ ret.vat_amount \in Nearest(args.gross_income, 24, 1000)
          /\ ret.total_with_vat \in Nearest(args.gross_income, 124, 1000)
          /\ ret.rate = FInt(24)
    /\ (IsCall("calculate_all_taxes") /\ args.gross_income >= 0) =>
          /\ ret.vat = calculate_vat(Amount(args.gross_income))
          /\ ret.vat.vat_amount \in Nearest(args.gross_income, 24, 1000)
          /\ ret.vat.total_with_vat \in Nearest(args.gross_income, 124, 1000)

C15_Witness ==
    /\ IsCall("calculate_vat")
    /\ args.gross_income = 15000000
    /\ ret.vat_amount = 360000
    /\ ret.total_with_vat = 1860000
    /\ ret.rate = FInt(24)

(* whole + rest / den rounded to the nearest integer, both neighbours on   *)
(* an exact tie.                                                           *)
NearestFrom(whole, rest, den) == {whole + x : x \in Nearest(rest, 1, den)}

(* k * a as thousands and rest, k * a itself not formed. *)
Thousands(k, a) == k * (a \div 1000) + (k * (a % 1000)) \div 1000
Rest(k, a) == (k * (a % 1000)) % 1000

(* The exact income tax of a summary, in mills * percent: the progressive  *)
(* reference on the gross income less the expenses, floored at zero.       *)
ExactIncomeTax(gross, expenses) == ProgressiveReference(Max(0, gross - expenses))

(* C16: every monetary field is the exact value rounded once: for gross >  *)
(* 0 and expenses >= 0 the summary's total_taxes is the exact income tax   *)
(* plus the exact social security contribution (20% of gross), rounded to  *)
(* 2 decimals; total_obligations is that exact sum plus the exact VAT (24% *)
(* of gross), rounded; net_income is gross less that exact sum, rounded.   *)
C16_RoundedOnce ==
    IsSummary =>
        LET Fields(tax, gross) ==
                /\ ret.total_taxes \in
                       NearestFrom((tax \div 1000) + Thousands(20, gross),
                                   (tax % 1000) + Rest(20, gross), 1000)
                /\ ret.total_obligations \in
                       NearestFrom((tax \div 1000) + Thousands(44, gross),
                                   (tax % 1000) + Rest(44, gross), 1000)
                /\ ret.net_income \in
                       NearestFrom(Thousands(80, gross) - (tax \div 1000),
                                   Rest(80, gross) - (tax % 1000), 1000)
        IN  Fields(ExactIncomeTax(args.gross_income, args.deductible_expenses),
                   args.gross_income)

(* C16 failing input: 50.02 and no expenses.  The exact income tax 4.5018  *)
(* and contribution 10.004 make 14.5058, which is 14.51 rounded once; the  *)
(* summary holds 14.50, the sum of the rounded 4.50 and 10.00.             *)
C16_Witness ==
    /\ IsSummary
    /\ args.gross_income = 50020
    /\ args.deductible_expenses = 0
    /\ ret.income_tax.total_tax = 450
    /\ ret.social_security.total_contribution = 1000
    /\ ret.total_taxes = 1450
    /\ ret.total_obligations = 2650
    /\ ret.net_income = 3552
    /\ 1451 \in NearestFrom((ExactIncomeTax(50020, 0) \div 1000) + 1000,
                             (ExactIncomeTax(50020, 0) % 1000) + 400, 1000)

(* C18: gross 35000 with expenses 5000 gives taxable income 30000, income  *)
(* tax 5900.00, social security 7000.00, total taxes 12900.00 and net      *)
(* income 22100.00; the quarterly schedule display_results builds from     *)
(* that summary's total taxes has 4 payments of 3225.00.                   *)
C18_Scenario ==
    /\ (/\ IsCall("calculate_all_taxes")
        /\ args.gross_income = 35000000
        /\ args.deductible_expenses = 5000000) =>
           /\ ret.taxable_income = 3000000
           /\ ret.income_tax.total_tax = 590000
           /\ ret.social_security.total_contribution = 700000
           /\ ret.total_taxes = 1290000
           /\ ret.net_income = 2210000
    /\ (/\ IsCall("display_results")
        /\ args.payment_frequency = quarterly
        /\ args.calculation_dict.gross_income = 3500000
        /\ args.calculation_dict.deductible_expenses = 500000
        /\ args.calculation_dict
               = calculate_all_taxes(Amount(35000000), Amount(5000000))) =>
           /\ raised = "none"
           /\ ret.annual_total = 1290000
           /\ ret.number_of_payments = 4
           /\ Len(ret.schedule) = 4
           /\ \A i \in 1..4 : ret.schedule[i].payment_amount = 322500
           /\ ret.payment_amount = 322500

C18_Witness ==
    /\ IsCall("display_results")
    /\ args.payment_frequency = quarterly
    /\ args.calculation_dict.gross_income = 3500000
    /\ args.calculation_dict.deductible_expenses = 500000
    /\ args.calculation_dict.taxable_income = 3000000
    /\ args.calculation_dict.total_taxes = 1290000
    /\ args.calculation_dict.net_income = 2210000
    /\ raised = "none"
    /\ ret.number_of_payments = 4
    /\ ret.payment_amount = 322500

(* C19: at gross = 0 and any expenses >= 0 the summary, which the guard    *)
(* for gross <= 0 returns, is field for field the summary the normal path  *)
(* (taxable income, income tax, VAT, social security, totals) returns for  *)
(* the same arguments.                                                     *)
C19_ShortCircuitAgrees ==
    (/\ IsCall("calculate_all_taxes")
     /\ args.gross_income = 0
     /\ args.deductible_expenses >= 0) =>
        /\ DOMAIN ret = DOMAIN NormalPath(Amount(0), Amount(args.deductible_expenses))
        /\ \A field \in DOMAIN ret :
              ret[field] = NormalPath(Amount(0), Amount(args.deductible_expenses))[field]

C19_Witness ==
    /\ IsCall("calculate_all_taxes")
    /\ args.gross_income = 0
    /\ args.deductible_expenses = 5000000
    /\ ret.deductible_expenses = 500000
    /\ ret.taxable_income = 0
    /\ ret.income_tax.bracket_breakdown = << >>
    /\ ret = ZeroSummary(Amount(0), Amount(5000000))
    /\ NormalPath(Amount(0), Amount(5000000)).taxable_income = 0

(* C17: every core operation is deterministic and independent of the      *)
(* calls made before it: a call with the operation and arguments of a call *)
(* made earlier, whatever calls were made in between, has the same result  *)
(* or raises the same exception.                                           *)
C17_SameOutcome ==
    (/\ pc = "returned"
     /\ earlier # NoCall
     /\ earlier.op = op
     /\ earlier.args = args) =>
        /\ ret = earlier.ret
        /\ raised = earlier.raised

C17_Witness ==
    /\ IsCall("calculate_income_tax")
    /\ args.taxable_income = 50000000
    /\ earlier # NoCall
    /\ earlier.op = "calculate_income_tax"
    /\ earlier.args = args
    /\ earlier.ret.total_tax = 1390000
    /\ ret.total_tax = 1390000

(* What a call returns or raises when it runs alone. *)
Alone(call) ==
    IF call.op = "calculate_income_tax"
    THEN [raised |-> "none",
          value  |-> calculate_income_tax(Amount(call.args.taxable_income))]
    ELSE IF call.op = "calculate_all_taxes"
    THEN [raised |-> "none",
          value  |-> calculate_all_taxes(Amount(call.args.gross_income),
                                         Amount(call.args.deductible_expenses))]
    ELSE IF call.op = "calculate_taxable_income"
    THEN [raised |-> "none",
          value  |-> [value |-> calculate_taxable_income(
                                    Amount(call.args.gross_income),
                                    Amount(call.args.deductible_expenses))]]
    ELSE IF call.op = "calculate_vat"
    THEN [raised |-> "none",
          value  |-> calculate_vat(Amount(call.args.gross_income))]
    ELSE IF call.op = "calculate_social_security"
    THEN [raised |-> "none",
          value  |-> calculate_social_security(Amount(call.args.gross_income))]
    ELSE calculate_payment_schedule(Amount(call.args.annual_tax),
                                    call.args.frequency)

(* C20: calls of core operations interleave freely: a call that runs while *)
(* other calls run returns (or raises) what it returns when it runs alone; *)
(* no call changes the bracket table or the set of valid frequencies; and  *)
(* the structures of a returned result are shared with no other call's.    *)
C20_Interleaving ==
    /\ brackets = INCOME_TAX_BRACKETS
    /\ frequencies = VALID_FREQUENCIES
    /\ \A t \in Threads :
          calls[t].pc = "returned" =>
              [raised |-> calls[t].raised, value |-> calls[t].ret]
                  = Alone(calls[t])
    /\ \A t, u \in Threads :
          (t # u /\ calls[t].pc = "returned" /\ calls[u].pc = "returned") =>
              calls[t].objects \cap calls[u].objects = {}

(* C20 witness: thread 1 has returned the tax on 15000, having run its     *)
(* loop while thread 2 was in the loop on 50000, where thread 2 still is.  *)
C20_Witness ==
    /\ calls[1].pc = "returned"
    /\ calls[1].op = "calculate_income_tax"
    /\ calls[1].args.taxable_income = 15000000
    /\ calls[1].ret.total_tax = 200000
    /\ calls[1].objects # {}
    /\ calls[2].pc = "running"
    /\ calls[2].op = "calculate_income_tax"
    /\ calls[2].args.taxable_income = 50000000
    /\ frames[2].i = 4

IsOpen(entry) == entry.bracket_max = Unlimited

(* The width of a closed entry's bracket, in cents. *)
Width(entry) == round2(entry.bracket_max) - round2(entry.bracket_min)

(* The entries of a breakdown follow one another from 0, every entry but   *)
(* the last is taxed over its full width, the last over no more than its   *)
(* width, and the open entry is the one of the top bracket.                *)
ContiguousAndFull(breakdown) ==
    /\ Len(breakdown) >= 1
    /\ breakdown[1].bracket_min = Zero
    /\ \A k \in 2..Len(breakdown) :
          breakdown[k].bracket_min = breakdown[k - 1].bracket_max
    /\ \A k \in 1..(Len(breakdown) - 1) :
          /\ ~IsOpen(breakdown[k])
          /\ breakdown[k].taxable_amount = Width(breakdown[k])
    /\ ~IsOpen(breakdown[Len(breakdown)]) =>
          breakdown[Len(breakdown)].taxable_amount
              <= Width(breakdown[Len(breakdown)])
    /\ \A k \in 1..Len(breakdown) :
          IsOpen(breakdown[k]) <=> k = Len(brackets)

(* C25 as stated: for T > 0 the breakdown's first bracket_min is 0, each   *)
(* later bracket_min is the previous bracket_max, every entry but the last *)
(* has its full width as taxable_amount, the last entry's taxable_amount   *)
(* is above 0 and at most its width, and only the top bracket's entry      *)
(* reports 'unlimited'.                                                    *)
C25_LastEntryPositive ==
    (IsCall("calculate_income_tax") /\ args.taxable_income > 0) =>
        /\ ContiguousAndFull(ret.bracket_breakdown)
        /\ ret.bracket_breakdown[Len(ret.bracket_breakdown)].taxable_amount > 0

(* C25, amended: for T > 0 the entries are contiguous from 0 and full      *)
(* except the last, whose taxable_amount is at least 0 and at most its     *)
(* width, and above 0 when T is a whole number of cents; only the top      *)
(* bracket's entry reports 'unlimited'.                                    *)
C25_ContiguousBreakdown ==
    (IsCall("calculate_income_tax") /\ args.taxable_income > 0) =>
        /\ ContiguousAndFull(ret.bracket_breakdown)
        /\ ret.bracket_breakdown[Len(ret.bracket_breakdown)].taxable_amount >= 0
        /\ args.taxable_income % 10 = 0 =>
              ret.bracket_breakdown[Len(ret.bracket_breakdown)].taxable_amount > 0

(* C25 witness: T = 40000.004 reaches the top bracket by less than half a  *)
(* cent: four full entries and an 'unlimited' one of 0.00.                 *)
C25_Witness ==
    /\ IsCall("calculate_income_tax")
    /\ args.taxable_income = 40000004
    /\ Len(ret.bracket_breakdown) = 5
    /\ \A k \in 1..4 : ret.bracket_breakdown[k].taxable_amount = 1000000
    /\ IsOpen(ret.bracket_breakdown[5])
    /\ ret.bracket_breakdown[5].taxable_amount = 0

----------------------------------------------------------------------------
(* Claims about the command line.                                          *)

(* What a typed text says, read as a decimal numeral: its hundredths; no   *)
(* number when it is empty, a word or nan.                                 *)
Meaning(text) ==
    IF text = <<"0">> THEN {0}
    ELSE IF text = <<"-", "5">> THEN {-500}
    ELSE IF text = <<" ", "5", "0", "0", "0", " ">> THEN {500000}
    ELSE IF text = <<"1", "0", "0", "0", "0", "0", "0", "0">> THEN {1000000000}
    ELSE IF text = <<"1", "0", "0", "0", "0", "0", "0", "0", ".", "0", "1">> THEN {1000000001}
    ELSE {}

(* The text is a number of at least `least` and at most `most` hundredths, *)
(* `least` itself allowed or not.                                          *)
Says(text, least, allowed, most) ==
    \E m \in Meaning(text) :
        /\ m >= least
        /\ allowed \/ m > least
        /\ m <= most

(* The sanity bound of 10,000,000, in hundredths. *)
SanityBound == max_amount * CentsPerEuro

(* A pair has reached calculate_all_taxes with 0 < gross <= 10,000,000 and *)
(* 0 <= expenses <= gross.                                                 *)
PassedWithinBounds ==
    session.passed # NoValue =>
        /\ Greater(session.passed.gross_income, Zero)
        /\ LessOrEqual(session.passed.gross_income, FInt(max_amount))
        /\ LessOrEqual(Zero, session.passed.deductible_expenses)
        /\ LessOrEqual(session.passed.deductible_expenses,
                       session.passed.gross_income)

(* A text read at the gross or the expenses prompt that is no number in    *)
(* the prompt's range leaves the session at the same prompt.               *)
RefusedAndAskedAgain ==
    /\ (/\ session.at = "gross_income"
        /\ session'.typed # NoValue
        /\ ~Says(session'.typed.text, 0, FALSE, SanityBound))
           => /\ session'.at = "gross_income"
              /\ session'.gross_income = session.gross_income
    /\ (/\ session.at = "expenses"
        /\ session'.typed # NoValue
        /\ session.gross_income # NaN
        /\ ~Says(session'.typed.text, 0, TRUE,
                 Min(SanityBound, round2(session.gross_income))))
           => /\ session'.at = "expenses"
              /\ session'.expenses = session.expenses

(* C21 as stated: every (gross, expenses) pair that reaches                *)
(* calculate_all_taxes from the prompts has 0 < gross <= 10,000,000 and    *)
(* 0 <= expenses <= gross; a text that is no number, a gross that is not   *)
(* positive, negative expenses, expenses above the gross and amounts above *)
(* the sanity bound are refused and the same prompt is asked again.        *)
C21_ValidatedPair == [](PassedWithinBounds) /\ [][RefusedAndAskedAgain]_vars

(* C21 witness: nan typed as the gross income has reached                  *)
(* calculate_all_taxes.                                                    *)
C21_Witness ==
    /\ session.calculations = 1
    /\ session.passed # NoValue
    /\ session.passed.gross_income = NaN
    /\ session.results.total_taxes = NaN

(* The answers that confirm and the answers that decline. *)
Confirming == {<<"y", "e", "s">>, <<"Y">>}
Declining == {<<"n", "o">>, <<"n">>}

(* The session moves to prompt `to` only from prompt `from`. *)
Follows(to, from) ==
    (session'.at = to /\ session.at # to) => session.at = from

(* The prompts follow one another: gross income, expenses, frequency,      *)
(* confirmation, each leaving its value behind, and the calculation        *)
(* starts only on a confirming answer.                                     *)
CollectedInOrder ==
    /\ Follows("gross_income", "main_menu")
    /\ Follows("expenses", "gross_income")
    /\ Follows("frequency", "expenses")
    /\ Follows("confirm", "frequency")
    /\ Follows("calculating", "confirm")
    /\ (session'.at = "expenses" /\ session.at # "expenses")
           => session'.gross_income # NoValue
    /\ (session'.at = "frequency" /\ session.at # "frequency")
           => session'.expenses # NoValue
    /\ (session'.at = "confirm" /\ session.at # "confirm")
           => session'.frequency \in {monthly, quarterly, annual}
    /\ (session'.at = "calculating" /\ session.at # "calculating")
           => /\ session'.typed # NoValue
              /\ session'.typed.text \in Confirming

(* What has been calculated and written changes only in the step of the    *)
(* confirmed calculation, which is made of the values collected; that step *)
(* ends at the main menu.                                                  *)
CalculatedOnlyWhenConfirmed ==
    /\ session.at = "calculating" => session'.at \in {"calculating", "main_menu"}
    /\ (\/ session'.calculations # session.calculations
        \/ session'.files # session.files
        \/ session'.passed # session.passed
        \/ session'.schedules # session.schedules)
           => /\ session.at = "calculating"
              /\ session'.at = "main_menu"
              /\ session'.calculations = session.calculations + 1
              /\ session'.files \in {session.files, session.files + 1}
              /\ session'.passed =
                     [gross_income        |-> session.gross_income,
                      deductible_expenses |-> session.expenses]

(* A declining answer or a cancelled confirmation leads to the main menu. *)
DeclinedToMainMenu ==
    (/\ session.at = "confirm"
     /\ \/ session'.typed = NoValue
        \/ session'.typed.text \in Declining)
        => /\ session'.at = "main_menu"
           /\ session'.calculations = session.calculations
           /\ session'.files = session.files

(* C22: a calculation, and the writing of its file, happens only after the *)
(* gross income, the expenses and the frequency have been collected in     *)
(* that order and the user has confirmed; a declined or cancelled          *)
(* confirmation calculates nothing, writes no file and leads to the main   *)
(* menu; every calculation is followed by the main menu.                   *)
C22_CalculationAfterConfirmation ==
    [][CollectedInOrder /\ CalculatedOnlyWhenConfirmed
       /\ DeclinedToMainMenu]_vars

(* C22 witness: a confirmed calculation of 5000 with expenses of 5000 has  *)
(* written its file and the main menu is shown again.                      *)
C22_Witness ==
    /\ session.at = "main_menu"
    /\ session.calculations = 1
    /\ session.files = 1
    /\ session.typed # NoValue
    /\ session.typed.text \in Confirming
    /\ session.passed = [gross_income        |-> FInt(5000),
                         deductible_expenses |-> FInt(5000)]

(* The choices of the frequency menu, as typed. *)
FrequencyChoices == {<<" ", "1">>, <<"2">>, <<"3">>}

(* The frequency in use is one of the three, and every call of             *)
(* calculate_payment_schedule of the last calculation, the one of          *)
(* display_results and the one of save_results_to_file, has returned.      *)
SchedulesSucceed ==
    /\ session.at \in {"confirm", "calculating"} =>
           session.frequency \in Accepted
    /\ session.calculations > 0 =>
           /\ session.frequency \in Accepted
           /\ session.schedules = <<"none", "none">>

(* Any other choice leaves the session at the frequency menu. *)
OtherChoiceAskedAgain ==
    (/\ session.at = "frequency"
     /\ session'.typed # NoValue
     /\ session'.typed.text \notin FrequencyChoices)
        => /\ session'.at = "frequency"
           /\ session'.frequency = session.frequency

(* C23: display_frequency_menu returns only monthly, quarterly or annual   *)
(* and asks again on any other choice, so no call of                       *)
(* calculate_payment_schedule by display_results or save_results_to_file   *)
(* raises the invalid-frequency error.                                     *)
C23_FrequencyAlwaysValid ==
    [](SchedulesSucceed) /\ [][OtherChoiceAskedAgain]_vars

(* C23 witness: a calculation with the quarterly choice made both calls of *)
(* calculate_payment_schedule, and both returned.                          *)
C23_Witness ==
    /\ session.calculations = 1
    /\ session.frequency = quarterly
    /\ session.schedules = <<"none", "none">>

====
